---- MODULE Spec2Model ----
(***************************************************************************)
(* Model of mux, a terminal process multiplexer (dflemstr/mux).            *)
(*                                                                         *)
(* The program is a set of loosely coupled components.  Each component is  *)
(* modelled by its own group of variables and its own specification; in a  *)
(* component's specification the variables of the other components stay at *)
(* their initial values.                                                   *)
(*                                                                         *)
(*   SpecFanout, FairSpecFanout   Fanout sink        src/src/fanout.rs     *)
(*   SpecSelectAll                stream multiplexer src/src/streams.rs    *)
(*   SpecMain                     run_with_options   src/src/main.rs       *)
(*   SpecCodec                    delimiter codec    src/src/args/         *)
(*   SpecArgs                     template expansion src/src/args/mod.rs   *)
(*   SpecInput                    child input sink   src/src/process.rs    *)
(***************************************************************************)
EXTENDS Integers, Sequences, FiniteSets, TLC

(***************************************************************************)
(* Bounds of the model.                                                    *)
(***************************************************************************)
\* number of downstream sinks of the Fanout
NumDown == 3
\* number of items the upstream producer offers to the Fanout
MaxItems == 3
\* number of member streams that may be pushed into a SelectAll
NumStreams == 3
\* number of items a member stream yields before it ends
MaxChunks == 2
\* number of child processes
NumChildren == 2
\* number of user input events before the user input ends
MaxInput == 2
\* number of events the user types while actions are forwarded
MaxTyped == 3
\* number of chunks a child writes while actions are forwarded
MaxWritten == 1
\* length of the byte stream the delimiter codec reads
MaxLen == 4
\* length of the command template (INITIAL-ARGS)
MaxTemplate == 3
\* number of tokens expanded
MaxArgs == 2
\* number of items the writer of a child input sink buffers before it
\* applies backpressure
MaxBuf == 2
\* largest number of lines and of columns of an emulator grid
MaxTermLines == 3
MaxTermCols == 2
\* largest count, line or column passed to a handler operation
MaxTermArg == 2

VARIABLES
    \* ---- Fanout (src/src/fanout.rs) ----
    downstreams,   \* Fanout.downstreams: d -> [state, sink]
    f_buffered,    \* the item the caller got back as NotReady(item), 0 if none
    f_accepted,    \* items for which Fanout.start_send returned Ready, in order
    f_failed,      \* a Fanout operation returned Err: the caller drops the sink
    f_closing,     \* the caller has started to close the Fanout
    f_last,        \* what the last Fanout call did and returned
    f_log,         \* results of the first three start_send calls, in call order
    f_drained,     \* some downstream sink has drained an item so far
    f_tick,        \* flips at every call of a Fanout operation
    \* ---- SelectAll (src/src/streams.rs) ----
    sa_inner,      \* SelectAll.inner: the member streams in the set
    sa_left,       \* s -> number of items stream s still yields before its end
    sa_ready,      \* s -> the next poll of stream s is ready (item or end)
    sa_yielded,    \* s -> number of items of s the merged stream has yielded
    sa_last,       \* result of the last SelectAll::poll
    sa_done,       \* the merged stream has reported its end to its consumer
    \* ---- run_with_options (src/src/main.rs) ----
    m_pc,          \* where run_with_options is
    m_child,       \* i -> "running", or how child i exited
    m_exit_status, \* i -> ProcessState.exit_status of child i in the UI
    m_input,       \* number of UserInput events processed
    m_result,      \* what run_with_options returned
    \* ---- delimiter codec under FramedRead (src/src/args/delimiter.rs) ----
    c_input,       \* the whole byte stream of the arg file
    c_delimiter,   \* DelimiterCodec.delimiter: <<>> is None, <<b>> is Some(b)
    c_unread,      \* the bytes not read yet
    c_src,         \* FramedRead's buffer, the src of decode
    next_index,    \* DelimiterCodec.next_index
    c_eof,         \* FramedRead.eof
    c_readable,    \* FramedRead.is_readable
    c_frames,      \* the tokens the stream has yielded so far
    c_done,        \* the stream has ended
    \* ---- template expansion (src/src/args/mod.rs) ----
    a_initial_args,\* Options.initial_args
    a_replace,     \* Options.replace: <<>> is None, <<r>> is Some(r)
    a_tokens,      \* the tokens read so far
    a_args,        \* the Args built so far, one per token
    \* ---- child input sink (src/src/process.rs) ----
    pi_sink,       \* Input.sink: "Some" or "None"
    pi_buf,        \* number of items in the buffer of the FramedWrite
    pi_pty,        \* what a write to the PTY master does at the moment
    pi_last,       \* the last call on the Input sink and its result
    pi_tick,       \* flips at every call on the Input sink
    \* ---- child output stream (src/src/process.rs) ----
    po_stream,     \* Output.stream: "Some" or "None"
    po_pty,        \* what a read of the PTY master does at the moment
    po_yielded,    \* number of chunks the stream has yielded
    po_last,       \* the result of the last Output::poll
    po_tick,       \* flips at every Output::poll
    \* ---- event loop and UI (src/src/main.rs run_gui, src/src/ui/mod.rs) ----
    g_args,        \* the tokens read, in order (args of run_with_options)
    g_processes,   \* index -> the child spawned at that position
    g_ui,          \* Ui.state and Ui.last_size
    g_size,        \* the size of the user's terminal at the moment
    g_user,        \* number of events the user input stream has yielded
    g_user_ended,  \* the tty has ended or Ctrl-T was read
    g_read,        \* index -> number of chunks read from that child's PTY
    g_out,         \* index -> "open" or "closed": that child's output stream
    g_output_done, \* the merged output stream has reported its end
    g_child,       \* index -> "running", or "reported" once its exit
                   \* status has been yielded by the event stream
    g_done,        \* take_while has ended the event stream
    g_result,      \* "none", "Err" once a stream or the UI has failed, or
                   \* "panic" once a draw has indexed outside the processes
    g_actions,     \* actions of the last event not yet taken by the Fanout
    g_sink,        \* index -> the data written to that child's input sink
    g_last,        \* the last event processed and what on_event did with it
    \* ---- terminal emulator (src/terminal-emulator/src/term/mod.rs) ----
    t_term,        \* the Term: grid size, cursors, modes, scroll region
    \* ---- semantic search (src/terminal-emulator/src/term/mod.rs, impl Search) ----
    ss_grid,       \* the grid's rows, line 0 at the bottom: cells [c, wrapline]
    ss_escape,     \* semantic_escape_chars
    ss_from,       \* the point the last search started from
    ss_point,      \* the current point (a selection end)
    ss_op,         \* "select", "left" or "right": the last operation
    \* ---- terminal emulator, cells (src/terminal-emulator/src/term/mod.rs) ----
    sc_term,       \* the Term with both grids' cells, the template and the history
    sc_prev,       \* the Term before the last handler operation
    sc_last,       \* the last handler operation and its argument
    sc_entered,    \* the visible primary grid when the alternate screen was entered
    sc_steps,      \* the number of handler operations applied so far
    \* ---- raw tty (src/src/tty.rs) ----
    ty_termios,    \* the attributes of the controlling terminal
    ty_prev_ios,   \* the attributes into_raw_mode captured ("none" before)
    ty_pc,         \* "open", "raw" (into_raw_mode returned Ok) or "failed"
    ty_handles,    \* per RawTty handle: "none", "live" or "dropped"
    ty_cause,      \* per dropped handle: why its owner went away
    ty_restore,    \* per dropped handle: the result of its restoring call
    ty_propagated, \* a drop returned an error or panicked
    \* ---- forwarding of actions (src/src/main.rs forward_stdin) ----
    fw_downstreams,\* the Fanout over the children's input sinks
    fw_buffered,   \* Forward.buffered: the action the sink handed back, or 0
    fw_actions,    \* the actions of the last event not yet yielded by flatten
    fw_typed,      \* number of events the user has typed
    fw_user,       \* number of user events the event stream has yielded
    fw_written,    \* child -> number of chunks it has written to its PTY
    fw_fed,        \* child -> number of its chunks fed to its emulator and drawn
    fw_reads,      \* child -> it reads its input
    fw_tick        \* flips at every poll of the forwarding task

varsFanout == <<downstreams, f_buffered, f_accepted, f_failed, f_closing,
                f_last, f_log, f_drained, f_tick>>

varsSelectAll == <<sa_inner, sa_left, sa_ready, sa_yielded, sa_last, sa_done>>

varsMain == <<m_pc, m_child, m_exit_status, m_input, m_result>>

varsCodec == <<c_input, c_delimiter, c_unread, c_src, next_index, c_eof,
               c_readable, c_frames, c_done>>

varsArgs == <<a_initial_args, a_replace, a_tokens, a_args>>

varsInput == <<pi_sink, pi_buf, pi_pty, pi_last, pi_tick>>

varsOutput == <<po_stream, po_pty, po_yielded, po_last, po_tick>>

varsGui == <<g_args, g_processes, g_ui, g_size, g_user, g_user_ended, g_read,
             g_out, g_output_done, g_child, g_done, g_result, g_actions,
             g_sink, g_last>>

varsTerm == <<t_term>>

varsSearch == <<ss_grid, ss_escape, ss_from, ss_point, ss_op>>

varsScreen == <<sc_term, sc_prev, sc_last, sc_entered, sc_steps>>

varsTty == <<ty_termios, ty_prev_ios, ty_pc, ty_handles, ty_cause,
             ty_restore, ty_propagated>>

varsForward == <<fw_downstreams, fw_buffered, fw_actions, fw_typed, fw_user,
                 fw_written, fw_fed, fw_reads, fw_tick>>

vars == <<varsFanout, varsSelectAll, varsMain, varsCodec, varsArgs,
          varsInput, varsOutput, varsGui, varsTerm, varsSearch, varsScreen,
          varsTty, varsForward>>

\* the variables of the other components, unchanged by a component's steps
exceptFanout == <<varsSelectAll, varsMain, varsCodec, varsArgs, varsInput,
                  varsOutput, varsGui, varsTerm, varsSearch, varsScreen,
                  varsTty, varsForward>>

exceptSelectAll == <<varsFanout, varsMain, varsCodec, varsArgs, varsInput,
                     varsOutput, varsGui, varsTerm, varsSearch, varsScreen,
                     varsTty, varsForward>>

exceptMain == <<varsFanout, varsSelectAll, varsCodec, varsArgs, varsInput,
                varsOutput, varsGui, varsTerm, varsSearch, varsScreen,
                varsTty, varsForward>>

exceptCodec == <<varsFanout, varsSelectAll, varsMain, varsArgs, varsInput,
                 varsOutput, varsGui, varsTerm, varsSearch, varsScreen,
                 varsTty, varsForward>>

exceptArgs == <<varsFanout, varsSelectAll, varsMain, varsCodec, varsInput,
                varsOutput, varsGui, varsTerm, varsSearch, varsScreen,
                varsTty, varsForward>>

exceptInput == <<varsFanout, varsSelectAll, varsMain, varsCodec, varsArgs,
                 varsOutput, varsGui, varsTerm, varsSearch, varsScreen,
                 varsTty, varsForward>>

exceptOutput == <<varsFanout, varsSelectAll, varsMain, varsCodec, varsArgs,
                  varsInput, varsGui, varsTerm, varsSearch, varsScreen,
                  varsTty, varsForward>>

exceptGui == <<varsFanout, varsSelectAll, varsMain, varsCodec, varsArgs,
               varsInput, varsOutput, varsTerm, varsSearch, varsScreen,
               varsTty, varsForward>>

exceptTerm == <<varsFanout, varsSelectAll, varsMain, varsCodec, varsArgs,
                varsInput, varsOutput, varsGui, varsSearch, varsScreen,
                varsTty, varsForward>>

exceptSearch == <<varsFanout, varsSelectAll, varsMain, varsCodec, varsArgs,
                  varsInput, varsOutput, varsGui, varsTerm, varsScreen,
                  varsTty, varsForward>>

exceptScreen == <<varsFanout, varsSelectAll, varsMain, varsCodec, varsArgs,
                  varsInput, varsOutput, varsGui, varsTerm, varsSearch,
                  varsTty, varsForward>>

exceptTty == <<varsFanout, varsSelectAll, varsMain, varsCodec, varsArgs,
               varsInput, varsOutput, varsGui, varsTerm, varsSearch,
               varsScreen, varsForward>>

exceptForward == <<varsFanout, varsSelectAll, varsMain, varsCodec, varsArgs,
                   varsInput, varsOutput, varsGui, varsTerm, varsSearch,
                   varsScreen, varsTty>>

(***************************************************************************)
(* Generic helpers.                                                        *)
(***************************************************************************)
Range(s) == {s[i] : i \in 1..Len(s)}

IsPrefix(s, t) == Len(s) <= Len(t) /\ \A i \in 1..Len(s) : s[i] = t[i]

Count(s, x) == Cardinality({i \in 1..Len(s) : s[i] = x})

(***************************************************************************)
(* FANOUT                                                                  *)
(*                                                                         *)
(* A downstream is [state, sink].  state is futures::AsyncSink<Item>:      *)
(* [ready |-> TRUE, item |-> 0] is AsyncSink::Ready and                    *)
(* [ready |-> FALSE, item |-> x] is AsyncSink::NotReady(x).                *)
(*                                                                         *)
(* The sink S is any futures::sink::Sink.  It is modelled as a buffer of   *)
(* capacity cap (0: unbounded) holding n unflushed items; received is the  *)
(* sequence of items whose start_send it accepted.                         *)
(***************************************************************************)
Down == 1..NumDown

Items == 1..MaxItems

AsyncSinkReady == [ready |-> TRUE, item |-> 0]

AsyncSinkNotReady(x) == [ready |-> FALSE, item |-> x]

SinkHasRoom(s) == s.cap = 0 \/ s.n < s.cap

\* S::start_send(item): Err, or Ready (item taken), or NotReady(item)
SinkStartSend(s, x) ==
    IF s.err THEN [sink |-> s, err |-> TRUE, state |-> AsyncSinkReady]
    ELSE IF SinkHasRoom(s)
         THEN [sink  |-> [s EXCEPT !.n = @ + 1, !.received = Append(@, x)],
               err   |-> FALSE,
               state |-> AsyncSinkReady]
         ELSE [sink |-> s, err |-> FALSE, state |-> AsyncSinkNotReady(x)]

\* S::poll_complete(): Err, or Ready when everything buffered is flushed
SinkPollComplete(s) ==
    [sink |-> s, err |-> s.err, ready |-> (~s.err /\ s.n = 0)]

\* S::close(): Err, or Ready when flushed and shut down
SinkClose(s) ==
    IF s.err THEN [sink |-> s, err |-> TRUE, ready |-> FALSE]
    ELSE IF s.n = 0
         THEN [sink |-> [s EXCEPT !.closed = TRUE], err |-> FALSE, ready |-> TRUE]
         ELSE [sink |-> s, err |-> FALSE, ready |-> FALSE]

\* Downstream::is_ready
IsReady(d) == d.state.ready

\* Downstream::keep_flushing, with a bug: the state is not replaced by Ready
\* before the retry, so an accepted item stays pending
KeepFlushingNoReplace(d) ==
    IF ~d.state.ready
    THEN LET r == SinkStartSend(d.sink, d.state.item) IN
         [d |-> [d EXCEPT !.sink = r.sink], err |-> r.err, called |-> TRUE]
    ELSE [d |-> d, err |-> FALSE, called |-> FALSE]

\* Downstream::keep_flushing: mem::replace(state, Ready); a NotReady(item) is
\* offered to the sink again and the state becomes the sink's answer.  On Err
\* the `?` returns before the assignment: the state stays Ready.
KeepFlushing(d) ==
    IF ~d.state.ready
    THEN LET r == SinkStartSend(d.sink, d.state.item) IN
         IF r.err
         THEN [d |-> [state |-> AsyncSinkReady, sink |-> r.sink],
               err |-> TRUE, called |-> TRUE]
         ELSE [d |-> [state |-> r.state, sink |-> r.sink],
               err |-> FALSE, called |-> TRUE]
    ELSE [d |-> d, err |-> FALSE, called |-> FALSE]

\* the only element of a one-element set
The(S) == CHOOSE x \in S : TRUE

\* the first downstream, in iteration order, that stops a loop over the
\* downstreams (NumDown + 1: the loop runs to its end)
FirstStop(S) == IF S = {} THEN NumDown + 1
                ELSE CHOOSE d \in S : \A e \in S : d <= e

\* Fanout::start_send, first loop: keep_flushing()? on every downstream in
\* order; the first Err ends the call.  retried: the downstreams whose sink
\* was offered its pending item.
FlushAll(ds) ==
    The({ [ds      |-> [d \in Down |-> IF d <= stop THEN KeepFlushing(ds[d]).d
                                       ELSE ds[d]],
           err     |-> stop <= NumDown,
           retried |-> {d \in Down : d <= stop /\ KeepFlushing(ds[d]).called}]
          : stop \in {FirstStop({d \in Down : KeepFlushing(ds[d]).err})} })

\* the second loop of Fanout::start_send offering the item to the first
\* downstream only
OfferAllFirstOnly(ds, x) ==
    [ds      |-> [d \in Down |->
                    IF d = 1
                    THEN [state |-> SinkStartSend(ds[d].sink, x).state,
                          sink  |-> SinkStartSend(ds[d].sink, x).sink]
                    ELSE ds[d]],
     err     |-> SinkStartSend(ds[1].sink, x).err,
     offered |-> {1}]

\* Fanout::start_send, second loop: state = sink.start_send(item.clone())? on
\* every downstream in order; the first Err ends the call before the
\* assignment.  offered: the downstreams whose sink was called.
OfferAll(ds, x) ==
    The({ [ds      |-> [d \in Down |->
                          IF d < stop
                          THEN [state |-> SinkStartSend(ds[d].sink, x).state,
                                sink  |-> SinkStartSend(ds[d].sink, x).sink]
                          ELSE ds[d]],
           err     |-> stop <= NumDown,
           offered |-> {d \in Down : d <= stop}]
          : stop \in {FirstStop({d \in Down :
                                   SinkStartSend(ds[d].sink, x).err})} })

\* the readiness test of Fanout::start_send, with a bug: any instead of all
AllReadyAny(ds) == \E d \in Down : IsReady(ds[d])

\* self.downstreams.iter().all(Downstream::is_ready)
AllReady(ds) == \A d \in Down : IsReady(ds[d])

PendingOf(ds) == {d \in Down : ~IsReady(ds[d])}

\* Fanout::start_send(x): the new downstreams and the result
StartSend(ds, x) ==
    The({ IF f.err
          THEN [ds |-> f.ds, res |-> "Err", retried |-> f.retried,
                offered |-> {}, still |-> PendingOf(f.ds)]
          ELSE IF AllReady(f.ds)
               THEN The({ [ds |-> o.ds,
                           res |-> IF o.err THEN "Err" ELSE "Ready",
                           retried |-> f.retried, offered |-> o.offered,
                           still |-> PendingOf(f.ds)]
                          : o \in {OfferAll(f.ds, x)} })
               ELSE [ds |-> f.ds, res |-> "NotReady", retried |-> f.retried,
                     offered |-> {}, still |-> PendingOf(f.ds)]
          : f \in {FlushAll(ds)} })

DownPollCompleteIgnoresFlush(d) ==
    LET k == KeepFlushing(d) IN
    IF k.err THEN [d |-> k.d, err |-> TRUE, ready |-> FALSE]
    ELSE LET p == SinkPollComplete(k.d.sink) IN
         IF p.err THEN [d |-> k.d, err |-> TRUE, ready |-> FALSE]
         ELSE [d |-> k.d, err |-> FALSE, ready |-> k.d.state.ready]

\* Downstream::poll_complete
DownPollComplete(d) ==
    LET k == KeepFlushing(d) IN
    IF k.err THEN [d |-> k.d, err |-> TRUE, ready |-> FALSE]
    ELSE LET p == SinkPollComplete(k.d.sink) IN
         IF p.err THEN [d |-> k.d, err |-> TRUE, ready |-> FALSE]
         ELSE [d |-> k.d, err |-> FALSE, ready |-> (k.d.state.ready /\ p.ready)]

\* Fanout::poll_complete: downstreams in order; the first Err or the first
\* downstream that is not ready ends the call.  polled: the downstreams whose
\* poll_complete was called.
PollAll(ds) ==
    The({ [ds     |-> [d \in Down |-> IF d <= stop THEN DownPollComplete(ds[d]).d
                                      ELSE ds[d]],
           res    |-> IF stop > NumDown THEN "Ready"
                      ELSE IF DownPollComplete(ds[stop]).err THEN "Err"
                      ELSE "NotReady",
           polled |-> {d \in Down : d <= stop}]
          : stop \in {FirstStop({d \in Down :
                                   \/ DownPollComplete(ds[d]).err
                                   \/ ~DownPollComplete(ds[d]).ready})} })

DownCloseIgnoresPending(d) ==
    LET k == KeepFlushing(d) IN
    IF k.err THEN [d |-> k.d, err |-> TRUE, ready |-> FALSE, closeCalled |-> FALSE]
    ELSE LET c == SinkClose(k.d.sink) IN
         [d |-> [k.d EXCEPT !.sink = c.sink], err |-> c.err,
          ready |-> c.ready, closeCalled |-> TRUE]

\* Downstream::close
DownClose(d) ==
    LET k == KeepFlushing(d) IN
    IF k.err THEN [d |-> k.d, err |-> TRUE, ready |-> FALSE, closeCalled |-> FALSE]
    ELSE IF k.d.state.ready
         THEN LET c == SinkClose(k.d.sink) IN
              [d |-> [k.d EXCEPT !.sink = c.sink], err |-> c.err,
               ready |-> c.ready, closeCalled |-> TRUE]
         ELSE [d |-> k.d, err |-> FALSE, ready |-> FALSE, closeCalled |-> FALSE]

\* Fanout::close: downstreams in order; the first Err or the first downstream
\* whose close is not ready ends the call.  closed: the downstreams whose
\* sink.close() was called.
CloseAll(ds) ==
    The({ [ds     |-> [d \in Down |-> IF d <= stop THEN DownClose(ds[d]).d
                                      ELSE ds[d]],
           res    |-> IF stop > NumDown THEN "Ready"
                      ELSE IF DownClose(ds[stop]).err THEN "Err"
                      ELSE "NotReady",
           polled |-> {d \in Down : d <= stop},
           closed |-> {d \in Down : d <= stop /\ DownClose(ds[d]).closeCalled}]
          : stop \in {FirstStop({d \in Down :
                                   \/ DownClose(ds[d]).err
                                   \/ ~DownClose(ds[d]).ready})} })

\* Downstream::new and Fanout::new: every downstream starts Ready
NewDownstream(cap) ==
    [state |-> AsyncSinkReady,
     sink  |-> [cap |-> cap, n |-> 0, received |-> <<>>, err |-> FALSE,
                closed |-> FALSE]]

Caps == {0, 1}

NoCall == [op |-> "none", res |-> "none", item |-> 0, retried |-> {},
           offered |-> {}, still |-> {}, before |-> {}]

\* Fanout::new over sinks of the capacities caps
FanoutNew(caps) ==
    /\ downstreams = [d \in Down |-> NewDownstream(caps[d])]
    /\ f_buffered = 0
    /\ f_accepted = <<>>
    /\ f_failed = FALSE
    /\ f_closing = FALSE
    /\ f_last = NoCall
    /\ f_log = <<>>
    /\ f_drained = FALSE
    /\ f_tick = FALSE

FanoutInit == \E caps \in [Down -> Caps] : FanoutNew(caps)

FanoutIdle == FanoutNew([d \in Down |-> 0])

\* The caller (Forward in main.rs forward_stdin) calls start_send with the item
\* it got back as NotReady, else with the next item of the upstream.
FanoutStartSend ==
    /\ UNCHANGED exceptFanout
    /\ ~f_failed /\ ~f_closing
    /\ f_buffered # 0 \/ Len(f_accepted) < MaxItems
    /\ \E x \in {IF f_buffered # 0 THEN f_buffered ELSE Len(f_accepted) + 1} :
       \E r \in {StartSend(downstreams, x)} :
           /\ downstreams' = r.ds
           /\ f_failed' = (r.res = "Err")
           /\ f_accepted' = IF r.res = "Ready" THEN Append(f_accepted, x)
                            ELSE f_accepted
           /\ f_buffered' = IF r.res = "NotReady" THEN x ELSE 0
           /\ f_last' = [op |-> "start_send", res |-> r.res, item |-> x,
                         retried |-> r.retried, offered |-> r.offered,
                         still |-> r.still, before |-> PendingOf(downstreams)]
           /\ f_log' = IF Len(f_log) < 3 THEN Append(f_log, r.res)
                       ELSE f_log
    /\ f_tick' = ~f_tick
    /\ UNCHANGED <<f_closing, f_drained>>

\* The caller calls poll_complete (the upstream has no item at the moment).
FanoutPollComplete ==
    /\ UNCHANGED exceptFanout
    /\ ~f_failed /\ ~f_closing
    /\ \E r \in {PollAll(downstreams)} :
       /\ downstreams' = r.ds
       /\ f_failed' = (r.res = "Err")
       /\ f_last' = [op |-> "poll_complete", res |-> r.res, item |-> 0,
                     retried |-> {}, offered |-> r.polled,
                     still |-> PendingOf(r.ds), before |-> PendingOf(downstreams)]
    /\ f_tick' = ~f_tick
    /\ UNCHANGED <<f_buffered, f_accepted, f_closing, f_log, f_drained>>

\* The caller calls close (the upstream has ended and no item was handed back).
FanoutClose ==
    /\ UNCHANGED exceptFanout
    /\ ~f_failed
    /\ f_buffered = 0
    /\ f_last.op = "close" => f_last.res # "Ready"
    /\ \E r \in {CloseAll(downstreams)} :
       /\ downstreams' = r.ds
       /\ f_failed' = (r.res = "Err")
       /\ f_last' = [op |-> "close", res |-> r.res, item |-> 0,
                     retried |-> {}, offered |-> r.polled,
                     still |-> PendingOf(r.ds), before |-> PendingOf(downstreams)]
    /\ f_closing' = TRUE
    /\ f_tick' = ~f_tick
    /\ UNCHANGED <<f_buffered, f_accepted, f_log, f_drained>>

\* A downstream sink flushes one buffered item (the consumer behind it reads).
SinkDrain(d) ==
    /\ UNCHANGED exceptFanout
    /\ downstreams[d].sink.n > 0
    /\ downstreams' = [downstreams EXCEPT ![d].sink.n = @ - 1]
    /\ f_drained' = TRUE
    /\ UNCHANGED <<f_buffered, f_accepted, f_failed, f_closing, f_last, f_log,
                   f_tick>>

\* A downstream sink starts to fail: its operations return Err from now on.
SinkFail(d) ==
    /\ UNCHANGED exceptFanout
    /\ ~f_failed
    /\ \A e \in Down : ~downstreams[e].sink.err
    /\ downstreams' = [downstreams EXCEPT ![d].sink.err = TRUE]
    /\ UNCHANGED <<f_buffered, f_accepted, f_failed, f_closing, f_last, f_log,
                   f_drained, f_tick>>

(***************************************************************************)
(* SELECT ALL                                                              *)
(*                                                                         *)
(* SelectAll keeps its member streams as StreamFutures in a                *)
(* FuturesUnordered.  A member stream s yields sa_left[s] more items and   *)
(* then ends; sa_ready[s] says that its StreamFuture resolves at the next  *)
(* poll.                                                                   *)
(***************************************************************************)
Streams == 1..NumStreams

\* select_all(streams): SelectAll::new and a push of every stream
SelectAllNew(members, left) ==
    /\ sa_inner = members
    /\ sa_left = left
    /\ sa_ready = [s \in Streams |-> FALSE]
    /\ sa_yielded = [s \in Streams |-> 0]
    /\ sa_last = "none"
    /\ sa_done = FALSE

SelectAllInit ==
    \E members \in SUBSET Streams : \E left \in [Streams -> 0..MaxChunks] :
        SelectAllNew(members, left)

SelectAllIdle == SelectAllNew({}, [s \in Streams |-> 0])

\* self.inner.poll(): what the FuturesUnordered of StreamFutures may answer.
\* Empty is Ready(None); Item is Ready(Some((Some(item), remaining))); Ended
\* is Ready(Some((None, remaining))) of a member stream that has ended.
InnerPoll(inner, ready, left) ==
    IF inner = {} THEN {[kind |-> "Empty", s |-> 0]}
    ELSE IF \A s \in inner : ~ready[s] THEN {[kind |-> "NotReady", s |-> 0]}
    ELSE {[kind |-> IF left[s] > 0 THEN "Item" ELSE "Ended", s |-> s] :
             s \in {t \in inner : ready[t]}}

\* the match of SelectAll::poll: what the merged stream answers
SelectAllAnswer(kind) ==
    CASE kind = "NotReady" -> "NotReady"
      [] kind = "Item"     -> "Item"
      [] OTHER             -> "End"

\* SelectAll::poll.  A member that yielded an item is pushed back; a member
\* that ended is not.  The consumer (Select in run_gui fuses its streams)
\* does not poll again after the end.
SelectAllPoll ==
    /\ ~sa_done
    /\ \E r \in InnerPoll(sa_inner, sa_ready, sa_left) :
          /\ sa_last' = SelectAllAnswer(r.kind)
          /\ sa_done' = (SelectAllAnswer(r.kind) = "End")
          /\ sa_inner' = IF r.kind = "Ended" THEN sa_inner \ {r.s} ELSE sa_inner
          /\ sa_left' = IF r.kind = "Item"
                        THEN [sa_left EXCEPT ![r.s] = @ - 1] ELSE sa_left
          /\ sa_yielded' = IF r.kind = "Item"
                           THEN [sa_yielded EXCEPT ![r.s] = @ + 1]
                           ELSE sa_yielded
          /\ sa_ready' = IF r.kind \in {"Item", "Ended"}
                         THEN [sa_ready EXCEPT ![r.s] = FALSE] ELSE sa_ready
    /\ UNCHANGED exceptSelectAll

\* A member stream becomes ready: its child wrote output or closed its PTY.
StreamWake(s) ==
    /\ s \in sa_inner
    /\ ~sa_ready[s]
    /\ sa_ready' = [sa_ready EXCEPT ![s] = TRUE]
    /\ UNCHANGED <<sa_inner, sa_left, sa_yielded, sa_last, sa_done>>
    /\ UNCHANGED exceptSelectAll

(***************************************************************************)
(* RUN_WITH_OPTIONS                                                        *)
(*                                                                         *)
(* After the spawn loop: run_gui builds the event stream, forward_stdin    *)
(* drives it into the Fanout, and run_with_options awaits what is left of  *)
(* the stream.  m_pc: "forward" while forward_stdin runs, "rest" at        *)
(* await!(rest.into_future()), "returned" after the return.                *)
(***************************************************************************)
Children == 1..NumChildren

MainNew ==
    /\ m_pc = "forward"
    /\ m_child = [i \in Children |-> "running"]
    /\ m_exit_status = [i \in Children |-> "none"]
    /\ m_input = 0
    /\ m_result = "none"

MainInit == MainNew

MainIdle == MainNew

\* Child i terminates, successfully or not.
ChildExits(i) ==
    /\ m_child[i] = "running"
    /\ \E status \in {"success", "failure"} :
          m_child' = [m_child EXCEPT ![i] = status]
    /\ UNCHANGED <<m_pc, m_exit_status, m_input, m_result>>
    /\ UNCHANGED exceptMain

\* The event stream yields UserInput; Ui::on_event turns it into actions.
EventUserInput ==
    /\ m_pc = "forward"
    /\ m_input < MaxInput
    /\ m_input' = m_input + 1
    /\ UNCHANGED <<m_pc, m_child, m_exit_status, m_result>>
    /\ UNCHANGED exceptMain

\* The exit future of child i resolves: the event stream yields
\* ProcessExit(i, status) and State::on_exit records the status.
EventProcessExit(i) ==
    /\ m_pc = "forward"
    /\ m_child[i] # "running"
    /\ m_exit_status[i] = "none"
    /\ m_exit_status' = [m_exit_status EXCEPT ![i] = m_child[i]]
    /\ UNCHANGED <<m_pc, m_child, m_input, m_result>>
    /\ UNCHANGED exceptMain

\* The user input ends (tty end-of-stream or Ctrl-T): the chained
\* EndOfUserInput makes take_while end the event stream, forward closes the
\* Fanout and forward_stdin returns the rest of the stream.
EventEndOfUserInput ==
    /\ m_pc = "forward"
    /\ m_pc' = "rest"
    /\ UNCHANGED <<m_child, m_exit_status, m_input, m_result>>
    /\ UNCHANGED exceptMain

\* await!(rest.into_future()): the take_while of the stream is done, so the
\* stream answers Ready(None) at once and run_with_options returns Ok(()).
RestIntoFuture ==
    /\ m_pc = "rest"
    /\ m_pc' = "returned"
    /\ m_result' = "Ok"
    /\ UNCHANGED <<m_child, m_exit_status, m_input>>
    /\ UNCHANGED exceptMain

\* A stream or a sink of the event loop fails (tty read, draw, PTY write):
\* the `?` of run_with_options returns the error.
EventError ==
    /\ m_pc = "forward"
    /\ m_pc' = "returned"
    /\ m_result' = "Err"
    /\ UNCHANGED <<m_child, m_exit_status, m_input>>
    /\ UNCHANGED exceptMain

\* main: process::exit(1) if run returned an error, else the exit code is 0
ExitCode(result) == IF result = "Err" THEN 1 ELSE 0

(***************************************************************************)
(* DELIMITER CODEC                                                         *)
(*                                                                         *)
(* The codec runs under a tokio FramedRead: the FramedRead reads chunks of *)
(* the arg file into its buffer, calls decode while the buffer is          *)
(* readable, and calls decode_eof once the read has returned 0 bytes.      *)
(***************************************************************************)
\* the bytes of the model: NUL, newline, space and the letter a
Bytes == {0, 10, 32, 97}

\* u8::is_ascii_whitespace: tab, line feed, form feed, carriage return, space
IsAsciiWhitespace(b) == b \in {9, 10, 12, 13, 32}

BoundedSeq(S, n) == UNION {[1..k -> S] : k \in 0..n}

Min(S) == CHOOSE x \in S : \A y \in S : x <= y

\* parse_delimiter: --null selects the NUL byte, else the -d byte, else None
parse_delimiter(null, delimiter) ==
    IF null THEN <<0>> ELSE IF delimiter # <<>> THEN delimiter ELSE <<>>

\* the predicate decode searches with: memchr of the byte, or whitespace
IsDelimiter(delimiter, b) ==
    IF delimiter # <<>> THEN b = delimiter[1] ELSE IsAsciiWhitespace(b)

None == [some |-> FALSE, bytes |-> <<>>]

Some(bytes) == [some |-> TRUE, bytes |-> bytes]

\* DelimiterCodec::decode.  The search starts at next_index; on a hit the
\* bytes up to and including the delimiter leave src, and an empty token is
\* answered with None; on a miss next_index moves to the end of src.
decode(delimiter, src, index) ==
    LET hits == {p \in (index + 1)..Len(src) : IsDelimiter(delimiter, src[p])} IN
    IF hits # {}
    THEN LET delimiter_index == Min(hits)
             bytes == SubSeq(src, 1, delimiter_index - 1) IN
         [frame |-> IF bytes = <<>> THEN None ELSE Some(bytes),
          src |-> SubSeq(src, delimiter_index + 1, Len(src)),
          next_index |-> 0]
    ELSE [frame |-> None, src |-> src, next_index |-> Len(src)]

\* DelimiterCodec::decode_eof: one decode; if it answered None, whatever is
\* left in the buffer is taken as the last token.
decode_eof(delimiter, buf, index) ==
    LET r == decode(delimiter, buf, index) IN
    IF r.frame.some THEN r
    ELSE IF r.src = <<>> THEN r
    ELSE [frame |-> Some(r.src), src |-> <<>>, next_index |-> 0]

\* generate_raw: a fresh codec under a fresh FramedRead over the arg file
CodecNew(input, delimiter) ==
    /\ c_input = input
    /\ c_delimiter = delimiter
    /\ c_unread = input
    /\ c_src = <<>>
    /\ next_index = 0
    /\ c_eof = FALSE
    /\ c_readable = FALSE
    /\ c_frames = <<>>
    /\ c_done = FALSE

CodecInit ==
    \E input \in BoundedSeq(Bytes, MaxLen) :
    \E null \in BOOLEAN : \E delimiter \in {<<>>, <<10>>} :
        CodecNew(input, parse_delimiter(null, delimiter))

CodecIdle == CodecNew(<<>>, <<>>)

\* FramedRead::poll, buffer readable and not at eof: decode; a frame is
\* yielded, None makes the FramedRead read again.
FramedDecode ==
    /\ ~c_done /\ c_readable /\ ~c_eof
    /\ \E r \in {decode(c_delimiter, c_src, next_index)} :
          /\ c_src' = r.src
          /\ next_index' = r.next_index
          /\ c_frames' = IF r.frame.some
                         THEN Append(c_frames, r.frame.bytes) ELSE c_frames
          /\ c_readable' = r.frame.some
    /\ UNCHANGED <<c_input, c_delimiter, c_unread, c_eof, c_done>>
    /\ UNCHANGED exceptCodec

\* FramedRead::poll, not readable: read the next chunk, of any length; a
\* read of 0 bytes at the end of the file sets eof.
FramedReadBuf ==
    /\ ~c_done /\ ~c_readable /\ ~c_eof
    /\ IF c_unread = <<>>
       THEN /\ c_eof' = TRUE
            /\ UNCHANGED <<c_unread, c_src>>
       ELSE /\ \E n \in 1..Len(c_unread) :
                 /\ c_src' = c_src \o SubSeq(c_unread, 1, n)
                 /\ c_unread' = SubSeq(c_unread, n + 1, Len(c_unread))
            /\ UNCHANGED c_eof
    /\ c_readable' = TRUE
    /\ UNCHANGED <<c_input, c_delimiter, next_index, c_frames, c_done>>
    /\ UNCHANGED exceptCodec

\* FramedRead::poll at eof: decode_eof; its answer is the answer of the
\* stream, None ends the stream.
FramedDecodeEof ==
    /\ ~c_done /\ c_readable /\ c_eof
    /\ \E r \in {decode_eof(c_delimiter, c_src, next_index)} :
          /\ c_src' = r.src
          /\ next_index' = r.next_index
          /\ c_frames' = IF r.frame.some
                         THEN Append(c_frames, r.frame.bytes) ELSE c_frames
          /\ c_done' = ~r.frame.some
    /\ UNCHANGED <<c_input, c_delimiter, c_unread, c_eof, c_readable>>
    /\ UNCHANGED exceptCodec

(***************************************************************************)
(* TEMPLATE EXPANSION                                                      *)
(***************************************************************************)
\* the words of a command template, and the tokens read from the arg file
Words == {"echo", "{}", "%"}

Tokens == {"hi", "{}"}

\* the closure of parse_arg_template: the -i value if given, else "{}"
IsPlaceholder(replace, part) ==
    IF replace # <<>> THEN part = replace[1] ELSE part = "{}"

\* slice::split: the segments between the elements that match, empty
\* segments included
RECURSIVE SplitFrom(_, _, _, _)
SplitFrom(initial_args, replace, i, segment) ==
    IF i > Len(initial_args) THEN <<segment>>
    ELSE IF IsPlaceholder(replace, initial_args[i])
         THEN <<segment>> \o SplitFrom(initial_args, replace, i + 1, <<>>)
         ELSE SplitFrom(initial_args, replace, i + 1,
                        Append(segment, initial_args[i]))

parse_arg_template(initial_args, replace) ==
    SplitFrom(initial_args, replace, 1, <<>>)

\* [Vec<String>]::join(&arg): the segments with arg between them
RECURSIVE Join(_, _)
Join(command_parts, arg) ==
    IF Len(command_parts) = 0 THEN <<>>
    ELSE IF Len(command_parts) = 1 THEN command_parts[1]
    ELSE command_parts[1] \o <<arg>> \o Join(Tail(command_parts), arg)

generate_final_argsAlwaysPush(arg, command_parts) ==
    [all |-> Append(Join(command_parts, arg), arg), specific |-> arg]

generate_final_args(arg, command_parts) ==
    IF Len(command_parts) = 1
    THEN [all |-> Append(command_parts[1], arg), specific |-> arg]
    ELSE [all |-> Join(command_parts, arg), specific |-> arg]

ArgsNew(initial_args, replace) ==
    /\ a_initial_args = initial_args
    /\ a_replace = replace
    /\ a_tokens = <<>>
    /\ a_args = <<>>

ArgsInit ==
    \E initial_args \in BoundedSeq(Words, MaxTemplate) :
    \E replace \in {<<>>, <<"%">>} :
        ArgsNew(initial_args, replace)

ArgsIdle == ArgsNew(<<>>, <<>>)

\* read: the next token of the raw stream is mapped by generate_final_args
\* with the parsed template and collected
ArgsRead ==
    /\ Len(a_tokens) < MaxArgs
    /\ \E a \in Tokens :
          /\ a_tokens' = Append(a_tokens, a)
          /\ a_args' = Append(a_args,
                 generate_final_args(a,
                     parse_arg_template(a_initial_args, a_replace)))
    /\ UNCHANGED <<a_initial_args, a_replace>>
    /\ UNCHANGED exceptArgs

(***************************************************************************)
(* CHILD INPUT SINK                                                        *)
(*                                                                         *)
(* Input wraps Option<FramedWrite<WriteHalf<AsyncPtyMaster>>>.  The        *)
(* FramedWrite buffers items and writes them to the PTY master; pi_pty     *)
(* says what a write does: "ok" writes everything, "blocked" would block,  *)
(* "broken" fails with BrokenPipe (the child is gone), "failing" fails     *)
(* with an error of another kind.                                          *)
(***************************************************************************)
PtyStates == {"ok", "blocked", "broken", "failing"}

\* FramedWrite::poll_complete: write the buffer out; nothing is written
\* when the buffer is empty.
WriterPollComplete(buf, pty) ==
    IF buf = 0 THEN [res |-> "Ready", buf |-> 0]
    ELSE CASE pty = "ok"      -> [res |-> "Ready", buf |-> 0]
           [] pty = "blocked" -> [res |-> "NotReady", buf |-> buf]
           [] pty = "broken"  -> [res |-> "Err(BrokenPipe)", buf |-> buf]
           [] OTHER           -> [res |-> "Err(Other)", buf |-> buf]

\* FramedWrite::start_send: at the backpressure boundary flush first, and
\* refuse the item if the buffer is still full; else buffer the item.
WriterStartSend(buf, pty) ==
    IF buf >= MaxBuf
    THEN LET r == WriterPollComplete(buf, pty) IN
         IF r.res \in {"Err(BrokenPipe)", "Err(Other)"} THEN r
         ELSE IF r.buf >= MaxBuf THEN [res |-> "NotReady", buf |-> r.buf]
         ELSE [res |-> "Ready", buf |-> r.buf + 1]
    ELSE [res |-> "Ready", buf |-> buf + 1]

\* FramedWrite::close: flush, then shut the writer down
WriterClose(buf, pty) == WriterPollComplete(buf, pty)

\* what an Input operation leaves: the sink, the writer's buffer, the
\* result, and whether the writer was called
InputUntouched(sink, buf) ==
    [sink |-> sink, buf |-> buf, res |-> "Ready", inner |-> "untouched",
     met |-> "Ready"]

\* the or_else of start_send and poll_complete: BrokenPipe drops the writer
\* and answers Ready, any other result is passed on
InputAbsorb(r) ==
    IF r.res = "Err(BrokenPipe)"
    THEN [sink |-> "None", buf |-> 0, res |-> "Ready", inner |-> "called",
          met |-> r.res]
    ELSE [sink |-> "Some", buf |-> r.buf, res |-> r.res, inner |-> "called",
          met |-> r.res]

\* Input::start_send
InputStartSend(sink, buf, pty) ==
    IF sink = "Some" THEN InputAbsorb(WriterStartSend(buf, pty))
    ELSE InputUntouched(sink, buf)

InputPollCompleteStaysOpen(sink, buf, pty) ==
    IF sink = "Some"
    THEN [InputAbsorb(WriterPollComplete(buf, pty)) EXCEPT !.sink = "Some"]
    ELSE InputUntouched(sink, buf)

\* Input::poll_complete
InputPollComplete(sink, buf, pty) ==
    IF sink = "Some" THEN InputAbsorb(WriterPollComplete(buf, pty))
    ELSE InputUntouched(sink, buf)

\* Input::close: the result of the writer's close is passed on as it is
InputClose(sink, buf, pty) ==
    IF sink = "Some"
    THEN LET r == WriterClose(buf, pty) IN
         [sink |-> "Some", buf |-> r.buf, res |-> r.res, inner |-> "called",
          met |-> r.res]
    ELSE InputUntouched(sink, buf)

\* Input::new
InputNew ==
    /\ pi_sink = "Some"
    /\ pi_buf = 0
    /\ pi_pty = "ok"
    /\ pi_last = [op |-> "none", res |-> "Ready", inner |-> "untouched",
                  met |-> "Ready"]
    /\ pi_tick = FALSE

InputInit == InputNew

InputIdle == InputNew

\* the effect of a call op with outcome r on the state
InputCalled(op, r) ==
    /\ pi_sink' = r.sink
    /\ pi_buf' = r.buf
    /\ pi_last' = [op |-> op, res |-> r.res, inner |-> r.inner, met |-> r.met]
    /\ pi_tick' = ~pi_tick
    /\ UNCHANGED pi_pty
    /\ UNCHANGED exceptInput

PiStartSend == InputCalled("start_send", InputStartSend(pi_sink, pi_buf, pi_pty))

PiPollComplete ==
    InputCalled("poll_complete", InputPollComplete(pi_sink, pi_buf, pi_pty))

PiClose == InputCalled("close", InputClose(pi_sink, pi_buf, pi_pty))

\* The PTY changes: the child reads or stops reading, or exits.
PtyChange ==
    /\ \E p \in PtyStates \ {pi_pty} : pi_pty' = p
    /\ UNCHANGED <<pi_sink, pi_buf, pi_last, pi_tick>>
    /\ UNCHANGED exceptInput

(***************************************************************************)
(* CHILD OUTPUT STREAM                                                     *)
(*                                                                         *)
(* Output wraps Option<FramedRead<ReadHalf<AsyncPtyMaster>>>.  po_pty says *)
(* what a read of the PTY master does: "data" yields a chunk, "pending"    *)
(* would block, "eof" reads 0 bytes, "eio" fails with OS error 5 (the      *)
(* child side of the PTY is closed), "failing" fails with another error.   *)
(***************************************************************************)
PtyReadStates == {"data", "pending", "eof", "eio", "failing"}

\* stream.poll() of the FramedRead with a BytesCodec
ReaderPoll(pty) ==
    CASE pty = "data"    -> "Item"
      [] pty = "pending" -> "NotReady"
      [] pty = "eof"     -> "End"
      [] pty = "eio"     -> "Err(EIO)"
      [] OTHER           -> "Err(Other)"

OutputPollStaysOpen(stream, pty) ==
    IF stream = "Some"
    THEN LET met == ReaderPoll(pty) IN
         [stream |-> "Some", res |-> IF met = "Err(EIO)" THEN "End" ELSE met,
          inner |-> "called", met |-> met]
    ELSE [stream |-> "None", res |-> "End", inner |-> "untouched",
          met |-> "none"]

\* Output::poll: an error with raw_os_error() == Some(5) drops the reader
\* and answers Ready(None); any other result is passed on; without a reader
\* the answer is Ready(None).
OutputPoll(stream, pty) ==
    IF stream = "Some"
    THEN LET met == ReaderPoll(pty) IN
         IF met = "Err(EIO)"
         THEN [stream |-> "None", res |-> "End", inner |-> "called",
               met |-> met]
         ELSE [stream |-> "Some", res |-> met, inner |-> "called",
               met |-> met]
    ELSE [stream |-> "None", res |-> "End", inner |-> "untouched",
          met |-> "none"]

\* Output::new
OutputNew ==
    /\ po_stream = "Some"
    /\ po_pty = "pending"
    /\ po_yielded = 0
    /\ po_last = [res |-> "none", inner |-> "untouched", met |-> "none"]
    /\ po_tick = FALSE

OutputInit == OutputNew

OutputIdle == OutputNew

\* A consumer polls the stream.
PoPoll ==
    /\ \E r \in {OutputPoll(po_stream, po_pty)} :
          /\ r.res = "Item" => po_yielded < MaxChunks
          /\ po_stream' = r.stream
          /\ po_last' = [res |-> r.res, inner |-> r.inner, met |-> r.met]
          /\ po_yielded' = IF r.res = "Item" THEN po_yielded + 1
                           ELSE po_yielded
    /\ po_tick' = ~po_tick
    /\ UNCHANGED po_pty
    /\ UNCHANGED exceptOutput

\* The PTY changes: the child writes, pauses, closes its side or exits.
PtyReadChange ==
    /\ \E p \in PtyReadStates \ {po_pty} : po_pty' = p
    /\ UNCHANGED <<po_stream, po_yielded, po_last, po_tick>>
    /\ UNCHANGED exceptOutput

(***************************************************************************)
(* EVENT LOOP AND UI                                                       *)
(*                                                                         *)
(* run_gui selects over the user input, the merged child outputs, the      *)
(* child exits and the resize ticks, takes events until EndOfUserInput and *)
(* maps every event through Ui::on_event to a list of actions; the actions *)
(* are forwarded to the children's input sinks by forward_stdin.  Indices  *)
(* are 0-based as in the source.                                           *)
(***************************************************************************)
Rect(x, y, width, height) == [x |-> x, y |-> y, width |-> width, height |-> height]

\* tui Rect::right and Rect::bottom
Right(rect) == rect.x + rect.width

Bottom(rect) == rect.y + rect.height

\* contains_point with the left and top edges excluded
contains_pointOpen(rect, x, y) ==
    rect.x < x /\ rect.y < y /\ Right(rect) > x /\ Bottom(rect) > y

\* contains_point
contains_point(rect, x, y) ==
    rect.x <= x /\ rect.y <= y /\ Right(rect) > x /\ Bottom(rect) > y

\* mouse_event_coords: termion coordinates are 1-based
mouse_event_coords(m) == [x |-> m.x - 1, y |-> m.y - 1]

\* width of the tab column: Constraint::Length(40) of State::layout
TabsWidth == 40

\* State::layout: the tab column and, right of it, the process pane
layout(area) ==
    LET w == IF area.width < TabsWidth THEN area.width ELSE TabsWidth IN
    [tabs_area    |-> Rect(area.x, area.y, w, area.height),
     process_area |-> Rect(area.x + w, area.y, area.width - w, area.height)]

\* Block::inner with Borders::RIGHT: the last column holds the border
BlockInner(area) ==
    Rect(area.x, area.y, IF area.width > 0 THEN area.width - 1 ELSE 0,
         area.height)

\* VerticalTabs::has_scroll_up and has_scroll_down
has_scroll_up(scroll) == scroll > 0

has_scroll_down(titles, scroll, area) == titles > scroll + area.height - 2

\* VerticalTabs::layout
TabsLayout(titles, scroll, area) ==
    LET tabs_area == BlockInner(area)
        scroll_up_offset == IF has_scroll_up(scroll) THEN 1 ELSE 0
        scroll_down_offset ==
            IF has_scroll_down(titles, scroll, tabs_area) THEN 1 ELSE 0
    IN [scroll_up_area |->
            Rect(tabs_area.x, tabs_area.y, tabs_area.width, scroll_up_offset),
        select_area |->
            Rect(tabs_area.x, tabs_area.y + scroll_up_offset, tabs_area.width,
                 tabs_area.height - scroll_up_offset - scroll_down_offset),
        scroll_down_area |->
            Rect(tabs_area.x,
                 tabs_area.y + tabs_area.height - scroll_down_offset,
                 tabs_area.width, scroll_down_offset)]

MinOf(a, b) == IF a < b THEN a ELSE b

MaxOf(a, b) == IF a > b THEN a ELSE b

\* VerticalTabs::on_mouse_event
on_mouse_event(titles, scroll, area, m) ==
    LET p == mouse_event_coords(m)
        l == TabsLayout(titles, scroll, area) IN
    IF contains_point(l.scroll_up_area, p.x, p.y)
    THEN [action |-> "ScrollUp", selected |-> 0]
    ELSE IF contains_point(l.scroll_down_area, p.x, p.y)
    THEN [action |-> "ScrollDown", selected |-> 0]
    ELSE IF contains_point(l.select_area, p.x, p.y)
    THEN [action |-> "Select",
          selected |-> MinOf(scroll + p.y - l.select_area.y, titles - 1)]
    ELSE [action |-> "None", selected |-> 0]

\* State::on_user_input: the new selected and scroll, and whether the
\* event was handled.  n is the number of processes.
on_user_input(n, selected, scroll, area, event) ==
    IF event.type = "Mouse"
    THEN LET a == layout(area)
             p == mouse_event_coords(event) IN
         IF contains_point(a.tabs_area, p.x, p.y)
         THEN LET t == on_mouse_event(n, scroll, a.tabs_area, event) IN
              [selected |-> IF t.action = "Select" THEN t.selected
                            ELSE selected,
               scroll |-> CASE t.action = "ScrollUp" ->
                                 MaxOf(0, scroll - 1)
                            [] t.action = "ScrollDown" ->
                                 MinOf(n - area.height + 2, scroll) + 1
                            [] OTHER -> scroll,
               handled |-> TRUE]
         ELSE IF contains_point(a.process_area, p.x, p.y)
         THEN [selected |-> selected, scroll |-> scroll, handled |-> TRUE]
         ELSE [selected |-> selected, scroll |-> scroll, handled |-> FALSE]
    ELSE [selected |-> selected, scroll |-> scroll, handled |-> FALSE]

\* the bytes of chunk k of the output of child c
ChunkBytes(c, k) == <<[child |-> c, chunk |-> k, byte |-> 1],
                      [child |-> c, chunk |-> k, byte |-> 2]>>

\* what the children write: chunk k of child c holds a query to the
\* terminal (device status, identify terminal) when c + k is odd, so that
\* every child writes chunks with and without a query
HasQuery(c, k) == (c + k) % 2 = 1

\* the bytes emulator c writes back in answer to a query in chunk k
ReplyBytes(c, k) == <<[reply |-> c, chunk |-> k]>>

\* ProcessState::on_data putting the new bytes before the ones already fed
ProcessOnDataPrepend(ps, data, query, reply) ==
    [ps EXCEPT !.fed = data \o @,
               !.input = IF query THEN @ \o reply ELSE @]

\* ProcessState::on_data: every byte in order through the processor into
\* the emulator; the emulator writes its answers into ProcessState.input.
ProcessOnData(ps, data, query, reply) ==
    [ps EXCEPT !.fed = @ \o data,
               !.input = IF query THEN @ \o reply ELSE @]

\* ProcessState::on_exit
ProcessOnExit(ps, status) == [ps EXCEPT !.exit_status = status]

\* TakeFrom without enumerate: every input is tagged with index 0
RECURSIVE TakeFromUntagged(_, _, _)
TakeFromUntagged(processes, idx, n) ==
    IF idx >= n THEN <<>>
    ELSE (IF processes[idx].input = <<>> THEN <<>>
          ELSE <<[type |-> "ProcessInput", index |-> 0,
                  data |-> processes[idx].input]>>)
         \o TakeFromUntagged(processes, idx + 1, n)

\* State::take_process_inputs: (index, input) of every process whose input
\* is not empty, in index order; the inputs are left empty.
RECURSIVE TakeFrom(_, _, _)
TakeFrom(processes, idx, n) ==
    IF idx >= n THEN <<>>
    ELSE (IF processes[idx].input = <<>> THEN <<>>
          ELSE <<[type |-> "ProcessInput", index |-> idx,
                  data |-> processes[idx].input]>>)
         \o TakeFrom(processes, idx + 1, n)

take_process_inputs(processes, n) == TakeFrom(processes, 0, n)

\* Ui::on_event: the new UI state, the actions, and for a UserInput event
\* whether the UI handled (consumed) it
on_event(ui, n, area, event) ==
    LET u == IF event.type \in {"Key", "Mouse", "Unsupported"}
             THEN on_user_input(n, ui.selected, ui.scroll, area, event)
             ELSE [selected |-> ui.selected, scroll |-> ui.scroll,
                   handled |-> TRUE]
        processes ==
            CASE event.type = "ProcessOutput" ->
                   [ui.processes EXCEPT ![event.idx] =
                       ProcessOnData(@, event.data, event.query, event.reply)]
              [] event.type = "ProcessExit" ->
                   [ui.processes EXCEPT ![event.idx] =
                       ProcessOnExit(@, event.status)]
              [] OTHER -> ui.processes
        process_input_all ==
            IF ~u.handled
            THEN <<[type |-> "ProcessInputAll", index |-> 0,
                    data |-> event.data]>>
            ELSE <<>>
    IN [ui |-> [ui EXCEPT !.selected = u.selected, !.scroll = u.scroll,
                          !.processes = [idx \in DOMAIN processes |->
                                           [processes[idx] EXCEPT !.input = <<>>]]],
        actions |-> process_input_all \o take_process_inputs(processes, n),
        handled |-> u.handled]

\* Action::matches_index answering true for every index
matches_indexAny(action, other_index) == action.index = action.index

\* Action::matches_index
matches_index(action, other_index) ==
    CASE action.type = "ProcessInput"    -> action.index = other_index
      [] action.type = "ProcessInputAll" -> TRUE
      [] OTHER                           -> action.index = other_index

\* the sizes the user's terminal may have
Sizes == {[width |-> 80, height |-> 24], [width |-> 60, height |-> 3]}

\* the user events: a key, an unsupported sequence, and mouse events in
\* the tab column (first rows, last row of the small terminal, border
\* column), in the process pane (inside the small terminal, inside the
\* large one only) and outside both terminals; coordinates are 1-based
UserEvents ==
    {[type |-> "Key", x |-> 0, y |-> 0],
     [type |-> "Unsupported", x |-> 0, y |-> 0]}
    \cup {[type |-> "Mouse", x |-> p[1], y |-> p[2]] :
             p \in {<<1, 1>>, <<1, 2>>, <<1, 3>>, <<40, 1>>, <<41, 1>>,
                    <<80, 24>>, <<81, 1>>, <<1, 25>>}}

Indices(args) == 0..(Len(args) - 1)

\* no event processed yet
NoEvent == [type |-> "none", idx |-> 0, data |-> <<>>, query |-> FALSE,
            reply |-> <<>>, status |-> "none", x |-> 0, y |-> 0]

\* Widget::draw of State: self.processes[self.selected] is outside the
\* vector
State_draw_panics(args, selected) == selected >= Len(args)

\* run_with_options up to run_gui: one child per token, in token order
\* (spawn loop), and run_gui up to Ui::new: one ProcessState per token with
\* the title "<placeholder>=<token>", and the first ui.draw().  args::read
\* yields no token when its input is empty.
GuiNew(args, size) ==
    /\ g_args = args
    /\ g_processes = [idx \in Indices(args) |->
                        [ordinal |-> idx,
                         argv |-> generate_final_args(args[idx + 1],
                                     parse_arg_template(<<"echo">>, <<>>)).all]]
    /\ g_ui = [selected |-> 0, scroll |-> 0, last_size |-> size,
               processes |-> [idx \in Indices(args) |->
                                [title |-> <<"{}", "=", args[idx + 1]>>,
                                 exit_status |-> "none",
                                 input |-> <<>>, fed |-> <<>>]]]
    /\ g_size = size
    /\ g_user = 0
    /\ g_user_ended = FALSE
    /\ g_read = [idx \in Indices(args) |-> 0]
    /\ g_out = [idx \in Indices(args) |-> "open"]
    /\ g_output_done = FALSE
    /\ g_child = [idx \in Indices(args) |-> "running"]
    /\ g_done = FALSE
    /\ g_result = IF State_draw_panics(args, 0) THEN "panic" ELSE "none"
    /\ g_actions = <<>>
    /\ g_sink = [idx \in Indices(args) |-> <<>>]
    /\ g_last = [event |-> NoEvent, handled |-> TRUE, actions |-> <<>>]

GuiInit ==
    \E args \in BoundedSeq(Tokens, NumChildren) :
    \E size \in Sizes :
        GuiNew(args, size)

GuiIdle == GuiNew(<<"hi">>, [width |-> 80, height |-> 24])

NumProcesses == Len(g_args)

\* frame.size(): the area the UI draws to
FrameSize == Rect(0, 0, g_size.width, g_size.height)

\* GuiCanYield without take_while: events pass after EndOfUserInput
GuiCanYieldNoTakeWhile == g_result = "none" /\ g_actions = <<>>

\* the event stream may yield: take_while has not ended it, no stream has
\* failed, and the actions of the previous event have been taken (Flatten
\* polls and_then only when the inner stream of actions is exhausted)
GuiCanYield == ~g_done /\ g_result = "none" /\ g_actions = <<>>

\* and_then(|event| ui.on_event(&event)): one event through Ui::on_event
GuiOnEvent(event) ==
    LET r == on_event(g_ui, NumProcesses, FrameSize, event) IN
    /\ g_ui' = r.ui
    /\ g_actions' = r.actions
    /\ g_last' = [event |-> event, handled |-> r.handled,
                  actions |-> r.actions]

\* read_events: the next event of the tty, with its raw bytes
GuiUserInput ==
    /\ GuiCanYield
    /\ ~g_user_ended
    /\ g_user < MaxInput
    /\ \E e \in UserEvents :
          GuiOnEvent([NoEvent EXCEPT !.type = e.type, !.x = e.x, !.y = e.y,
                          !.data = <<[user |-> g_user + 1]>>])
    /\ g_user' = g_user + 1
    /\ UNCHANGED <<g_args, g_processes, g_size, g_user_ended, g_read, g_out,
                   g_output_done, g_child, g_done, g_result, g_sink>>
    /\ UNCHANGED exceptGui

\* the tty reaches its end or the user types Ctrl-T: read_events' take_while
\* ends the iterator
GuiUserInputEnds ==
    /\ ~g_user_ended
    /\ g_user_ended' = TRUE
    /\ UNCHANGED <<g_args, g_processes, g_ui, g_size, g_user, g_read, g_out,
                   g_output_done, g_child, g_done, g_result, g_actions,
                   g_sink, g_last>>
    /\ UNCHANGED exceptGui

\* chain(once(EndOfUserInput)) yields the sentinel after the user input has
\* ended, and take_while ends the event stream at it
GuiEndOfUserInput ==
    /\ GuiCanYield
    /\ g_user_ended
    /\ g_done' = TRUE
    /\ g_last' = [event |-> [NoEvent EXCEPT !.type = "EndOfUserInput"],
                  handled |-> TRUE, actions |-> <<>>]
    /\ UNCHANGED <<g_args, g_processes, g_ui, g_size, g_user, g_user_ended,
                   g_read, g_out, g_output_done, g_child, g_result,
                   g_actions, g_sink>>
    /\ UNCHANGED exceptGui

\* the merged output stream yields the next chunk of child idx, tagged with
\* the index the enumerate of run_gui gave that child's output
GuiProcessOutput(idx) ==
    /\ GuiCanYield
    /\ ~g_output_done
    /\ g_out[idx] = "open"
    /\ g_read[idx] < MaxChunks
    /\ GuiOnEvent([NoEvent EXCEPT
              !.type = "ProcessOutput", !.idx = idx,
              !.data = ChunkBytes(g_processes[idx].ordinal, g_read[idx] + 1),
              !.query = HasQuery(g_processes[idx].ordinal, g_read[idx] + 1),
              !.reply = ReplyBytes(g_processes[idx].ordinal, g_read[idx] + 1)])
    /\ g_read' = [g_read EXCEPT ![idx] = @ + 1]
    /\ UNCHANGED <<g_args, g_processes, g_size, g_user, g_user_ended, g_out,
                   g_output_done, g_child, g_done, g_result, g_sink>>
    /\ UNCHANGED exceptGui

\* the output of child idx ends (EIO on its PTY): SelectAll reports the end
\* of the merged stream and Select does not poll it again
GuiOutputEnds(idx) ==
    /\ ~g_done /\ g_result = "none"
    /\ ~g_output_done
    /\ g_out[idx] = "open"
    /\ g_out' = [g_out EXCEPT ![idx] = "closed"]
    /\ g_output_done' = TRUE
    /\ UNCHANGED <<g_args, g_processes, g_ui, g_size, g_user, g_user_ended,
                   g_read, g_child, g_done, g_result, g_actions, g_sink,
                   g_last>>
    /\ UNCHANGED exceptGui

\* child idx has exited and futures_unordered of the exits yields its
\* status, tagged with the index the enumerate of run_gui gave that
\* child's exit
GuiProcessExit(idx) ==
    /\ GuiCanYield
    /\ g_child[idx] = "running"
    /\ GuiOnEvent([NoEvent EXCEPT !.type = "ProcessExit", !.idx = idx,
                       !.status = <<"exit", g_processes[idx].ordinal>>])
    /\ g_child' = [g_child EXCEPT ![idx] = "reported"]
    /\ UNCHANGED <<g_args, g_processes, g_size, g_user, g_user_ended, g_read,
                   g_out, g_output_done, g_done, g_result, g_sink>>
    /\ UNCHANGED exceptGui

\* the user resizes the terminal and the next resize tick finds
\* Ui::check_resized true: last_size is updated and a Resized event goes
\* through on_event
GuiResized ==
    /\ GuiCanYield
    /\ \E size \in Sizes \ {g_ui.last_size} :
          LET r == on_event([g_ui EXCEPT !.last_size = size], NumProcesses,
                            Rect(0, 0, size.width, size.height),
                            [NoEvent EXCEPT !.type = "Resized"]) IN
          /\ g_size' = size
          /\ g_ui' = r.ui
          /\ g_actions' = r.actions
          /\ g_last' = [event |-> [NoEvent EXCEPT !.type = "Resized"],
                        handled |-> r.handled, actions |-> r.actions]
    /\ UNCHANGED <<g_args, g_processes, g_user, g_user_ended, g_read, g_out,
                   g_output_done, g_child, g_done, g_result, g_sink>>
    /\ UNCHANGED exceptGui

\* a source stream or Ui::on_event fails: the error ends the forwarding
GuiError ==
    /\ GuiCanYield
    /\ g_result' = "Err"
    /\ UNCHANGED <<g_args, g_processes, g_ui, g_size, g_user, g_user_ended,
                   g_read, g_out, g_output_done, g_child, g_done, g_actions,
                   g_sink, g_last>>
    /\ UNCHANGED exceptGui

\* forward_stdin, input sink of child my_index: the two with_flat_map
\* filters.  The outer one keeps the actions that match the index, the
\* inner one takes the data out of them.
SinkInput(my_index, action) ==
    IF matches_index(action, my_index)
    THEN (IF action.type \in {"ProcessInputAll", "ProcessInput"}
          THEN <<action.data>> ELSE <<>>)
    ELSE <<>>

\* forward_stdin: the Fanout takes the next action and offers it to the
\* input sink of every child
GuiForward ==
    /\ g_result = "none"
    /\ g_actions # <<>>
    /\ g_sink' = [idx \in DOMAIN g_sink |->
                     g_sink[idx] \o SinkInput(idx, Head(g_actions))]
    /\ g_actions' = Tail(g_actions)
    /\ UNCHANGED <<g_args, g_processes, g_ui, g_size, g_user, g_user_ended,
                   g_read, g_out, g_output_done, g_child, g_done, g_result,
                   g_last>>
    /\ UNCHANGED exceptGui

(***************************************************************************)
(* TERMINAL EMULATOR: CURSOR, MODES AND SCROLL REGION                      *)
(*                                                                         *)
(* Term as far as the position of the cursor depends on it: the size of    *)
(* the grids, the active and the two saved cursors, input_needs_wrap, the  *)
(* mode bits, alt, the scroll region and the tab stops.  Lines and columns *)
(* are usize: a subtraction below zero panics in a build with overflow     *)
(* checks and wraps in a build without; an operation records in ovf that   *)
(* it met one.                                                             *)
(***************************************************************************)
\* number of values of a usize in the model (2^16 standing for 2^64)
UsizeModulus == 65536

\* a - b on usize, wrapping
WSub(a, b) == IF a >= b THEN a - b ELSE a - b + UsizeModulus

Point(line, col) == [line |-> line, col |-> col]

\* TermMode::default
DefaultMode == {"SHOW_CURSOR", "LINE_WRAP"}

\* Term::new for a SizeInfo of the given lines and columns
TermNew(num_lines, num_cols) ==
    [num_lines |-> num_lines, num_cols |-> num_cols,
     cursor |-> Point(0, 0), cursor_save |-> Point(0, 0),
     cursor_save_alt |-> Point(0, 0),
     input_needs_wrap |-> FALSE, mode |-> DefaultMode, alt |-> FALSE,
     scroll_region |-> [start |-> 0, end |-> num_lines],
     ovf |-> FALSE, panicked |-> FALSE]

\* TabStops::new with tabspaces = 4
TabAt(col) == col % 4 = 0

\* Term::goto
goto(t, line, col) ==
    LET origin == "ORIGIN" \in t.mode
        y_offset == IF origin THEN t.scroll_region.start ELSE 0
        max_y == IF origin THEN WSub(t.scroll_region.end, 1)
                 ELSE WSub(t.num_lines, 1) IN
    [t EXCEPT !.cursor.line = MinOf(line + y_offset, max_y),
              !.cursor.col = MinOf(col, WSub(t.num_cols, 1)),
              !.input_needs_wrap = FALSE,
              !.ovf = @ \/ (origin /\ t.scroll_region.end = 0)]

goto_line(t, line) == goto(t, line, t.cursor.col)

goto_col(t, col) == goto(t, t.cursor.line, col)

\* saturating_sub
SatSub(a, b) == IF a >= b THEN a - b ELSE 0

move_up(t, lines) == goto(t, SatSub(t.cursor.line, lines), t.cursor.col)

move_down(t, lines) == goto(t, t.cursor.line + lines, t.cursor.col)

move_forward(t, cols) ==
    [t EXCEPT !.cursor.col = MinOf(t.cursor.col + cols, WSub(t.num_cols, 1)),
              !.input_needs_wrap = FALSE]

move_backward(t, cols) ==
    [t EXCEPT !.cursor.col = @ - MinOf(@, cols),
              !.input_needs_wrap = FALSE]

move_down_and_cr(t, lines) == goto(t, t.cursor.line + lines, 0)

move_up_and_cr(t, lines) == goto(t, SatSub(t.cursor.line, lines), 0)

\* the inner loop of put_tab: to the next tab stop or the last column
RECURSIVE NextTab(_, _)
NextTab(col, num_cols) ==
    IF col + 1 = num_cols THEN col
    ELSE IF TabAt(col + 1) THEN col + 1
    ELSE NextTab(col + 1, num_cols)

RECURSIVE PutTabCol(_, _, _)
PutTabCol(col, num_cols, count) ==
    IF col < num_cols /\ count # 0
    THEN PutTabCol(NextTab(col, num_cols), num_cols, count - 1)
    ELSE col

put_tab(t, count) ==
    [t EXCEPT !.cursor.col = PutTabCol(@, t.num_cols, count),
              !.input_needs_wrap = FALSE]

\* one round of move_backward_tabs: the nearest tab stop left of col
PrevTab(col) ==
    LET stops == {i \in 0..(col - 1) : TabAt(i)} IN
    IF stops = {} THEN col
    ELSE CHOOSE i \in stops : \A j \in stops : j <= i

RECURSIVE BackTabCol(_, _)
BackTabCol(col, count) ==
    IF count <= 0 THEN col ELSE BackTabCol(PrevTab(col), count - 1)

move_backward_tabs(t, count) ==
    [t EXCEPT !.cursor.col = BackTabCol(@, count)]

backspace(t) ==
    IF t.cursor.col > 0
    THEN [t EXCEPT !.cursor.col = @ - 1, !.input_needs_wrap = FALSE]
    ELSE t

carriage_return(t) ==
    [t EXCEPT !.cursor.col = 0, !.input_needs_wrap = FALSE]

\* scroll_up_relative and scroll_down_relative move cells only; the length
\* of the region they compute underflows when the region is reversed
scroll_up_relative(t, origin, lines) ==
    [t EXCEPT !.ovf = @ \/ t.scroll_region.end < t.scroll_region.start]

scroll_down_relative(t, origin, lines) ==
    [t EXCEPT !.ovf = @ \/ t.scroll_region.end < t.scroll_region.start
                        \/ t.scroll_region.end < origin]

scroll_up(t, lines) == scroll_up_relative(t, t.scroll_region.start, lines)

scroll_down(t, lines) == scroll_down_relative(t, t.scroll_region.start, lines)

\* Contains for Range<Line>
RegionContains(t, line) ==
    t.scroll_region.start <= line /\ line < t.scroll_region.end

insert_blank_lines(t, lines) ==
    IF RegionContains(t, t.cursor.line)
    THEN scroll_down_relative(t, t.cursor.line, lines)
    ELSE t

delete_lines(t, lines) ==
    IF RegionContains(t, t.cursor.line)
    THEN scroll_up_relative(t, t.cursor.line, lines)
    ELSE t

linefeed(t) ==
    LET next == t.cursor.line + 1 IN
    IF next = t.scroll_region.end THEN scroll_up(t, 1)
    ELSE IF next < t.num_lines THEN [t EXCEPT !.cursor.line = @ + 1]
    ELSE t

newline(t) ==
    IF "LINE_FEED_NEW_LINE" \in t.mode
    THEN carriage_return(linefeed(t))
    ELSE linefeed(t)

reverse_index(t) ==
    IF t.cursor.line = t.scroll_region.start
    THEN scroll_down(t, 1)
    ELSE [t EXCEPT !.cursor.line = @ - MinOf(@, 1)]

\* Term::input of a character of the given width (0, 1 or 2 cells)
input(t, width) ==
    LET stuck == t.input_needs_wrap /\ "LINE_WRAP" \notin t.mode
        w == IF ~t.input_needs_wrap THEN t
             ELSE LET down == IF t.cursor.line + 1 >= t.scroll_region.end
                              THEN linefeed(t)
                              ELSE [t EXCEPT !.cursor.line = @ + 1] IN
                  [down EXCEPT !.cursor.col = 0, !.input_needs_wrap = FALSE]
        wide == IF width = 2 /\ w.cursor.col + 1 < w.num_cols
                THEN [w EXCEPT !.cursor.col = @ + 1]
                ELSE w
    IN IF stuck THEN t
       ELSE IF width = 0 THEN w
       ELSE IF wide.cursor.col + 1 < wide.num_cols
       THEN [wide EXCEPT !.cursor.col = @ + 1]
       ELSE [wide EXCEPT !.input_needs_wrap = TRUE]

save_cursor_position(t) ==
    IF t.alt THEN [t EXCEPT !.cursor_save_alt = t.cursor]
    ELSE [t EXCEPT !.cursor_save = t.cursor]

restore_cursor_position(t) ==
    LET source == IF t.alt THEN t.cursor_save_alt ELSE t.cursor_save IN
    [t EXCEPT !.cursor =
        [source EXCEPT !.line = MinOf(source.line, WSub(t.num_lines, 1)),
                       !.col = MinOf(source.col, WSub(t.num_cols, 1))]]

\* swap_alt, as far as the state kept here goes: the grids have one size
swap_alt(t) == [t EXCEPT !.alt = ~@]

\* set_scrolling_region with the region made non-empty
set_scrolling_regionChecked(t, start, end) ==
    LET e == MaxOf(1, MinOf(end, t.num_lines))
        s == MinOf(start, e - 1) IN
    goto([t EXCEPT !.scroll_region = [start |-> s, end |-> e]], 0, 0)

\* Term::set_scrolling_region
set_scrolling_region(t, start, end) ==
    goto([t EXCEPT !.scroll_region = [start |-> MinOf(start, t.num_lines),
                                      end |-> MinOf(end, t.num_lines)]],
         0, 0)

deccolm(t) == set_scrolling_region(t, 0, t.num_lines)

\* the modes whose bit is toggled and nothing else
PlainModes == {"LINE_WRAP", "ORIGIN"}

Modes == PlainModes \cup {"SwapScreenAndSetRestoreCursor", "DECCOLM"}

set_mode(t, mode) ==
    CASE mode = "SwapScreenAndSetRestoreCursor" ->
           LET a == save_cursor_position(
                        [t EXCEPT !.mode = @ \cup {"ALT_SCREEN"}])
               b == IF ~a.alt THEN swap_alt(a) ELSE a IN
           save_cursor_position(b)
      [] mode = "DECCOLM" -> deccolm(t)
      [] OTHER -> [t EXCEPT !.mode = @ \cup {mode}]

unset_mode(t, mode) ==
    CASE mode = "SwapScreenAndSetRestoreCursor" ->
           LET a == restore_cursor_position(
                        [t EXCEPT !.mode = @ \ {"ALT_SCREEN"}])
               b == IF a.alt THEN swap_alt(a) ELSE a IN
           restore_cursor_position(b)
      [] mode = "DECCOLM" -> deccolm(t)
      [] OTHER -> [t EXCEPT !.mode = @ \ {mode}]

reset_state(t) ==
    [t EXCEPT !.input_needs_wrap = FALSE, !.alt = FALSE,
              !.cursor = Point(0, 0), !.mode = DefaultMode,
              !.cursor_save = Point(0, 0), !.cursor_save_alt = Point(0, 0)]

\* Term::resize to a SizeInfo of the given lines and columns (cells of
\* size 1, no padding); scroll_limit is the number of scrollback lines the
\* active grid holds
resize(t, lines, cols, scroll_limit) ==
    IF cols = 0 \/ lines = 0 THEN t
    ELSE IF t.num_cols = cols /\ t.num_lines = lines THEN t
    ELSE
    LET num_cols == IF cols <= 1 THEN 2 ELSE cols
        num_lines == IF lines <= 1 THEN 2 ELSE lines
        growage == IF num_lines > t.num_lines
                   THEN MinOf(num_lines - t.num_lines, scroll_limit)
                   ELSE 0
        grown == IF "ALT_SCREEN" \in t.mode
                 THEN [t EXCEPT !.cursor_save.line = @ + growage]
                 ELSE [t EXCEPT !.cursor.line = @ + growage]
        clamp(p) == Point(MinOf(p.line, num_lines - 1),
                          MinOf(p.col, num_cols - 1))
    IN [grown EXCEPT !.num_lines = num_lines, !.num_cols = num_cols,
                     !.scroll_region = [start |-> 0, end |-> num_lines],
                     !.cursor = clamp(@),
                     !.cursor_save = clamp(@),
                     !.cursor_save_alt = clamp(@)]

\* the handler operations that read the cursor and write cells only
CellOps == {"insert_blank", "erase_chars", "delete_chars", "clear_line",
            "clear_screen", "substitute", "dectest", "move_forward_tabs"}

\* the sizes of a terminal
TermLines == 2..MaxTermLines

TermCols == 2..MaxTermCols

\* the counts, lines and columns passed to the handler
TermArgs == 0..MaxTermArg

TermInitial(num_lines, num_cols) ==
    t_term = TermNew(num_lines, num_cols)

TermInit ==
    \E num_lines \in TermLines, num_cols \in TermCols :
        TermInitial(num_lines, num_cols)

TermIdle == TermInitial(2, 2)

\* the handler operation op with result r: a subtraction below zero either
\* ends the emulator with a panic (build with overflow checks) or wraps
\* (build without).  A terminal whose cursor has left the grid is not
\* followed further: the next access to the cell under the cursor indexes
\* the grid out of range.
TermApply(op, r) ==
    /\ ~t_term.panicked
    /\ t_term.cursor.line < t_term.num_lines
    /\ t_term.cursor.col < t_term.num_cols
    /\ \/ t_term' = [r EXCEPT !.ovf = FALSE]
       \/ r.ovf /\ t_term' = [t_term EXCEPT !.panicked = TRUE]
    /\ UNCHANGED exceptTerm

TermInput == \E width \in 0..2 : TermApply("input", input(t_term, width))

TermGoto ==
    \E line \in TermArgs, col \in TermArgs :
        TermApply("goto", goto(t_term, line, col))

TermGotoLine == \E line \in TermArgs : TermApply("goto_line", goto_line(t_term, line))

TermGotoCol == \E col \in TermArgs : TermApply("goto_col", goto_col(t_term, col))

TermMoveUp == \E n \in TermArgs : TermApply("move_up", move_up(t_term, n))

TermMoveDown == \E n \in TermArgs : TermApply("move_down", move_down(t_term, n))

TermMoveForward ==
    \E n \in TermArgs : TermApply("move_forward", move_forward(t_term, n))

TermMoveBackward ==
    \E n \in TermArgs : TermApply("move_backward", move_backward(t_term, n))

TermMoveDownAndCr ==
    \E n \in TermArgs : TermApply("move_down_and_cr", move_down_and_cr(t_term, n))

TermMoveUpAndCr ==
    \E n \in TermArgs : TermApply("move_up_and_cr", move_up_and_cr(t_term, n))

TermPutTab == \E n \in TermArgs : TermApply("put_tab", put_tab(t_term, n))

TermMoveBackwardTabs ==
    \E n \in TermArgs :
        TermApply("move_backward_tabs", move_backward_tabs(t_term, n))

TermBackspace == TermApply("backspace", backspace(t_term))

TermCarriageReturn == TermApply("carriage_return", carriage_return(t_term))

TermLinefeed == TermApply("linefeed", linefeed(t_term))

TermNewline == TermApply("newline", newline(t_term))

TermReverseIndex == TermApply("reverse_index", reverse_index(t_term))

TermScrollUp == \E n \in TermArgs : TermApply("scroll_up", scroll_up(t_term, n))

TermScrollDown ==
    \E n \in TermArgs : TermApply("scroll_down", scroll_down(t_term, n))

TermInsertBlankLines ==
    \E n \in TermArgs :
        TermApply("insert_blank_lines", insert_blank_lines(t_term, n))

TermDeleteLines ==
    \E n \in TermArgs : TermApply("delete_lines", delete_lines(t_term, n))

TermCellOp == \E op \in CellOps : TermApply(op, t_term)

TermSaveCursor ==
    TermApply("save_cursor_position", save_cursor_position(t_term))

TermRestoreCursor ==
    TermApply("restore_cursor_position", restore_cursor_position(t_term))

TermSetMode == \E mode \in Modes : TermApply("set_mode", set_mode(t_term, mode))

TermUnsetMode ==
    \E mode \in Modes : TermApply("unset_mode", unset_mode(t_term, mode))

TermSetScrollingRegion ==
    \E start \in {0, 1, MaxTermLines}, end \in {0, 2, MaxTermLines} :
        TermApply("set_scrolling_region",
                  set_scrolling_region(t_term, start, end))

TermResetState == TermApply("reset_state", reset_state(t_term))

TermResize ==
    \E lines \in 0..MaxTermLines, cols \in 0..MaxTermCols :
    \E scroll_limit \in 0..1 :
        TermApply("resize", resize(t_term, lines, cols, scroll_limit))

(***************************************************************************)
(* Semantic search: impl Search for Term.  A Point<usize> counts lines     *)
(* from the bottom of the buffer (line 0 is the newest row, line len-1 the *)
(* oldest), columns from the left.  The grid iterator walks the cells in   *)
(* reading order: prev() goes left and then to the last column of the row  *)
(* above, next() goes right and then to column 0 of the row below.         *)
(***************************************************************************)
SearchLines == 2
SearchCols == 3

SearchChars == {"a", ","}

\* Grid::len(): the number of rows of the buffer
GridLen(grid) == SearchLines

\* Grid::num_cols() - 1
LastCol(grid) == SearchCols - 1

\* GridIterator::prev() is Some: not at column 0 of the oldest row
IterHasPrev(grid, cur) == ~(cur.col = 0 /\ cur.line = GridLen(grid) - 1)

\* GridIterator::prev(): the iterator's position after the step
IterPrev(grid, cur) ==
    IF cur.col = 0
    THEN [line |-> cur.line + 1, col |-> LastCol(grid)]
    ELSE [line |-> cur.line, col |-> cur.col - 1]

\* GridIterator::next() is Some: not at the last column of the newest row
IterHasNext(grid, cur) == ~(cur.col = LastCol(grid) /\ cur.line = 0)

\* GridIterator::next(): the iterator's position after the step
IterNext(grid, cur) ==
    IF cur.col = LastCol(grid)
    THEN [line |-> cur.line - 1, col |-> 0]
    ELSE [line |-> cur.line, col |-> cur.col + 1]

\* point.line = min(point.line, self.grid.len() - 1)
LimitToGrid(grid, point) ==
    [point EXCEPT !.line = MinOf(point.line, GridLen(grid) - 1)]

\* A variant of the left search that takes the cell before testing WRAPLINE,
\* in the order semantic_search_right uses.
RECURSIVE SearchLeftEagerFrom(_, _, _)
SearchLeftEagerFrom(grid, escape, cur) ==
    IF ~IterHasPrev(grid, cur) THEN cur
    ELSE LET p == IterPrev(grid, cur)
             cell == grid[p.line][p.col]
         IN  IF cell.c \in escape THEN cur
             ELSE IF p.col = LastCol(grid) /\ ~cell.wrapline THEN p
             ELSE SearchLeftEagerFrom(grid, escape, p)

semantic_search_leftEager(grid, escape, point) ==
    SearchLeftEagerFrom(grid, escape, LimitToGrid(grid, point))

\* the while-let loop of semantic_search_left, from iterator position cur
RECURSIVE SearchLeftFrom(_, _, _)
SearchLeftFrom(grid, escape, cur) ==
    IF ~IterHasPrev(grid, cur) THEN cur
    ELSE LET p == IterPrev(grid, cur)
             cell == grid[p.line][p.col]
         IN  IF cell.c \in escape THEN cur
             ELSE IF p.col = LastCol(grid) /\ ~cell.wrapline THEN cur
             ELSE SearchLeftFrom(grid, escape, p)

semantic_search_left(grid, escape, point) ==
    SearchLeftFrom(grid, escape, LimitToGrid(grid, point))

\* the while-let loop of semantic_search_right, from iterator position cur
RECURSIVE SearchRightFrom(_, _, _)
SearchRightFrom(grid, escape, cur) ==
    IF ~IterHasNext(grid, cur) THEN cur
    ELSE LET p == IterNext(grid, cur)
             cell == grid[p.line][p.col]
         IN  IF cell.c \in escape THEN cur
             ELSE IF p.col = LastCol(grid) /\ ~cell.wrapline THEN p
             ELSE SearchRightFrom(grid, escape, p)

semantic_search_right(grid, escape, point) ==
    SearchRightFrom(grid, escape, LimitToGrid(grid, point))

\* Rows as the handler leaves them: WRAPLINE is only ever set on the cell
\* in the last column.
SearchCells(col) ==
    [c : SearchChars, wrapline : IF col = SearchCols - 1 THEN BOOLEAN ELSE {FALSE}]

SearchGrids ==
    { g \in [0..SearchLines-1 -> [0..SearchCols-1 -> [c : SearchChars, wrapline : BOOLEAN]]] :
        \A l \in 0..SearchLines-1 : \A k \in 0..SearchCols-1 :
            g[l][k] \in SearchCells(k) }

\* Points a caller passes: any column of the grid, any line up to one past
\* the oldest row (which the searches limit to the grid).
SearchPoints == [line : 0..SearchLines, col : 0..SearchCols-1]

\* Term::new leaves semantic_escape_chars empty; tests::semantic_selection_works
\* swaps in a non-empty string.
SearchInit ==
    /\ ss_grid \in SearchGrids
    /\ ss_escape \in {{}, {","}}
    /\ ss_from = [line |-> 0, col |-> 0]
    /\ ss_point = [line |-> 0, col |-> 0]
    /\ ss_op = "select"

SearchIdle ==
    /\ ss_grid = [l \in 0..SearchLines-1 |-> [k \in 0..SearchCols-1 |->
                    [c |-> "a", wrapline |-> FALSE]]]
    /\ ss_escape = {}
    /\ ss_from = [line |-> 0, col |-> 0]
    /\ ss_point = [line |-> 0, col |-> 0]
    /\ ss_op = "select"

\* a caller picks a point of the grid
SearchSelect(p) ==
    /\ ss_from' = p
    /\ ss_point' = p
    /\ ss_op' = "select"
    /\ UNCHANGED <<ss_grid, ss_escape>>
    /\ UNCHANGED exceptSearch

SearchLeft ==
    /\ ss_from' = ss_point
    /\ ss_point' = semantic_search_left(ss_grid, ss_escape, ss_point)
    /\ ss_op' = "left"
    /\ UNCHANGED <<ss_grid, ss_escape>>
    /\ UNCHANGED exceptSearch

SearchRight ==
    /\ ss_from' = ss_point
    /\ ss_point' = semantic_search_right(ss_grid, ss_escape, ss_point)
    /\ ss_op' = "right"
    /\ UNCHANGED <<ss_grid, ss_escape>>
    /\ UNCHANGED exceptSearch

(***************************************************************************)
(* TERMINAL EMULATOR: CELLS                                                *)
(*                                                                         *)
(* Term with the cells of its two grids.  A cell is its character, its     *)
(* background colour, its flags and its list of zero-width characters; the *)
(* cursor carries the template cell.  The record has the fields of the     *)
(* cursor model above, so the operations that move the cursor only are     *)
(* used as they are; the operations below add what the handler does to the *)
(* cells.  grid is the active grid (self.grid), alt_grid the inactive one; *)
(* history is the number of scrollback rows of the primary grid (the       *)
(* alternate grid has history_size 0).                                     *)
(***************************************************************************)
ScreenLines == 2
MaxScreenCols == 3
MaxScreenOps == 3

\* Cell::default
DefaultCell == [c |-> " ", bg |-> 0, flags |-> {}, extra |-> <<>>]

\* Cell::push_extra
push_extra(cell, c) == [cell EXCEPT !.extra = Append(@, c)]

\* UnicodeWidthChar::width of the characters written here: "a" is narrow,
\* "W" wide, "z" a combining character
CharWidth(c) == CASE c = "W" -> 2 [] c = "z" -> 0 [] OTHER -> 1

\* Grid::new: every cell a copy of the template
GridNew(num_lines, num_cols, template) ==
    [l \in 0..(num_lines - 1) |-> [k \in 0..(num_cols - 1) |-> template]]

\* Cursor::default with the template cell
CursorNew == [line |-> 0, col |-> 0, template |-> DefaultCell]

\* the scrollback capacity Term::new gives the primary grid
HistorySize == 1024

\* Term::new with the cells: grid is the primary grid, with scrollback, and
\* alt_grid the alternate grid, without; history, display_offset and
\* history_size belong to grid, the alt_ fields to alt_grid
ScreenNew(num_lines, num_cols) ==
    [cursor |-> CursorNew, cursor_save |-> CursorNew,
     cursor_save_alt |-> CursorNew,
     grid |-> GridNew(num_lines, num_cols, DefaultCell),
     alt_grid |-> GridNew(num_lines, num_cols, DefaultCell),
     history |-> 0, display_offset |-> 0, history_size |-> HistorySize,
     alt_history |-> 0, alt_display_offset |-> 0, alt_history_size |-> 0]
        @@ TermNew(num_lines, num_cols)

\* region_mut(start..end).each(|c| c.reset(template)) and a row's
\* cells[from..to] reset: Cell::reset copies the template
ResetRows(grid, start, end, template) ==
    [l \in DOMAIN grid |->
        IF start <= l /\ l < end
        THEN [k \in DOMAIN grid[l] |-> template]
        ELSE grid[l]]

ResetCells(grid, line, from, to, template) ==
    [grid EXCEPT ![line] =
        [k \in DOMAIN @ |-> IF from <= k /\ k < to THEN template ELSE @[k]]]

\* Grid::scroll_up(start..end, positions, template): the visible rows
GridScrollUp(grid, start, end, positions, template) ==
    [l \in DOMAIN grid |->
        IF l < start \/ l >= end THEN grid[l]
        ELSE IF l + positions < end THEN grid[l + positions]
        ELSE [k \in DOMAIN grid[l] |-> template]]

\* Grid::scroll_down(start..end, positions, template): the visible rows
GridScrollDown(grid, start, end, positions, template) ==
    [l \in DOMAIN grid |->
        IF l < start \/ l >= end THEN grid[l]
        ELSE IF l >= start + positions THEN grid[l - positions]
        ELSE [k \in DOMAIN grid[l] |-> template]]

\* Grid::clear_history
clear_history(s) == [s EXCEPT !.history = 0, !.display_offset = 0]

\* Grid::scroll_display(Scroll::Top) and (Scroll::Bottom)
scroll_display(s, scroll) ==
    [s EXCEPT !.display_offset = IF scroll = "Top" THEN s.history ELSE 0]

\* rows scrolled off the top of a grid with scrollback are kept as history
scroll_up_relative_cells(s, origin, lines) ==
    LET n == MinOf(lines, s.scroll_region.end - s.scroll_region.start) IN
    [scroll_up_relative(s, origin, lines) EXCEPT
        !.grid = GridScrollUp(@, origin, s.scroll_region.end, n,
                              s.cursor.template),
        !.history = IF origin = 0 THEN MinOf(@ + n, s.history_size) ELSE @]

scroll_down_relative_cells(s, origin, lines) ==
    LET n == MinOf(MinOf(lines, s.scroll_region.end - s.scroll_region.start),
                   s.scroll_region.end - origin) IN
    [scroll_down_relative(s, origin, lines) EXCEPT
        !.grid = GridScrollDown(@, origin, s.scroll_region.end, n,
                                s.cursor.template)]

scroll_up_cells(s, lines) ==
    scroll_up_relative_cells(s, s.scroll_region.start, lines)

scroll_down_cells(s, lines) ==
    scroll_down_relative_cells(s, s.scroll_region.start, lines)

\* insert_blank_lines that scrolls the whole region instead of the part from
\* the cursor line
insert_blank_lines_cellsWholeRegion(s, lines) ==
    IF RegionContains(s, s.cursor.line)
    THEN scroll_down_relative_cells(s, s.scroll_region.start, lines)
    ELSE s

insert_blank_lines_cells(s, lines) ==
    IF RegionContains(s, s.cursor.line)
    THEN scroll_down_relative_cells(s, s.cursor.line, lines)
    ELSE s

delete_lines_cells(s, lines) ==
    IF RegionContains(s, s.cursor.line)
    THEN scroll_up_relative_cells(s, s.cursor.line, lines)
    ELSE s

linefeed_cells(s) ==
    IF s.cursor.line + 1 = s.scroll_region.end
    THEN scroll_up_cells(s, 1)
    ELSE linefeed(s)

reverse_index_cells(s) ==
    IF s.cursor.line = s.scroll_region.start
    THEN scroll_down_cells(s, 1)
    ELSE reverse_index(s)

\* Term::input of the character c (INSERT mode is never set here, the
\* charset maps the character to itself)
input_cells(s, c) ==
    LET width == CharWidth(c)
        stuck == s.input_needs_wrap /\ "LINE_WRAP" \notin s.mode
        flagged == [s EXCEPT !.grid[s.cursor.line][s.cursor.col].flags =
                                 @ \cup {"WRAPLINE"}]
        w == IF ~s.input_needs_wrap THEN s
             ELSE LET down == IF s.cursor.line + 1 >= s.scroll_region.end
                              THEN linefeed_cells(flagged)
                              ELSE [flagged EXCEPT !.cursor.line = @ + 1] IN
                  [down EXCEPT !.cursor.col = 0, !.input_needs_wrap = FALSE]
        line == w.cursor.line
        col == w.cursor.col
        \* the column a zero-width character goes to: the step back over a
        \* spacer computes a value that is dropped
        zcol == SatSub(col, 1)
        glyph == [w.cursor.template EXCEPT
                     !.c = c,
                     !.flags = IF width = 2 THEN @ \cup {"WIDE_CHAR"} ELSE @]
        spacer == [w.cursor.template EXCEPT
                      !.flags = @ \cup {"WIDE_CHAR_SPACER"}]
        written == [w EXCEPT !.grid[line][col] = glyph]
        wide == IF width = 2 /\ col + 1 < w.num_cols
                THEN [written EXCEPT !.cursor.col = col + 1,
                                     !.grid[line][col + 1] = spacer]
                ELSE written
    IN IF stuck THEN s
       ELSE IF width = 0
       THEN [w EXCEPT !.grid[line][zcol] = push_extra(@, c)]
       ELSE IF wide.cursor.col + 1 < wide.num_cols
       THEN [wide EXCEPT !.cursor.col = @ + 1]
       ELSE [wide EXCEPT !.input_needs_wrap = TRUE]

insert_blank(s, count) ==
    LET n == MinOf(count, s.num_cols - s.cursor.col)
        source == s.cursor.col
        destination == s.cursor.col + n
        row == s.grid[s.cursor.line] IN
    [s EXCEPT !.grid[s.cursor.line] =
        [k \in DOMAIN row |->
            IF k < source THEN row[k]
            ELSE IF k < destination THEN s.cursor.template
            ELSE row[k - n]]]

erase_chars(s, count) ==
    [s EXCEPT !.grid = ResetCells(@, s.cursor.line, s.cursor.col,
                                  MinOf(s.cursor.col + count, s.num_cols),
                                  s.cursor.template)]

delete_chars(s, count) ==
    LET n == MinOf(count, s.num_cols)
        start == s.cursor.col
        end == MinOf(start + n, s.num_cols - 1)
        row == s.grid[s.cursor.line]
        moved == [k \in DOMAIN row |->
                     IF start <= k /\ k < start + (s.num_cols - end)
                     THEN row[k + (end - start)]
                     ELSE row[k]] IN
    [s EXCEPT !.grid[s.cursor.line] =
        [k \in DOMAIN row |->
            IF k >= s.num_cols - n THEN s.cursor.template ELSE moved[k]]]

\* the template of a clear: template.flags ^= template.flags
ClearTemplate(s) == [s.cursor.template EXCEPT !.flags = {}]

clear_line(s, mode) ==
    LET col == s.cursor.col IN
    CASE mode = "Right" ->
           [s EXCEPT !.grid = ResetCells(@, s.cursor.line, col, s.num_cols,
                                         ClearTemplate(s))]
      [] mode = "Left" ->
           [s EXCEPT !.grid = ResetCells(@, s.cursor.line, 0, col + 1,
                                         ClearTemplate(s))]
      [] mode = "All" ->
           [s EXCEPT !.grid = ResetCells(@, s.cursor.line, 0, s.num_cols,
                                         ClearTemplate(s))]

\* clear_screen for the modes that reset visible cells
ClearScreenCells(s, mode) ==
    LET line == s.cursor.line
        col == s.cursor.col
        template == ClearTemplate(s) IN
    CASE mode = "Below" ->
           LET first == ResetCells(s.grid, line, col, s.num_cols, template) IN
           [s EXCEPT !.grid = IF line < s.num_lines - 1
                              THEN ResetRows(first, line + 1, s.num_lines,
                                             template)
                              ELSE first]
      [] mode = "All" ->
           [s EXCEPT !.grid = ResetRows(@, 0, s.num_lines, template)]
      [] mode = "Above" ->
           LET above == IF line > 1
                        THEN ResetRows(s.grid, 0, line, template)
                        ELSE s.grid IN
           [s EXCEPT !.grid = ResetCells(above, line, 0,
                                         MinOf(col + 1, s.num_cols), template)]

\* clear_screen that leaves the scrollback alone
clear_screenKeepsHistory(s, mode) ==
    IF mode = "Saved" THEN s ELSE ClearScreenCells(s, mode)

clear_screen(s, mode) ==
    IF mode = "Saved" THEN clear_history(s) ELSE ClearScreenCells(s, mode)

\* mem::swap(&mut self.grid, &mut self.alt_grid) after alt = !alt: the
\* grids change places with their scrollback
SwapGrids(s) ==
    [swap_alt(s) EXCEPT
        !.grid = s.alt_grid, !.alt_grid = s.grid,
        !.history = s.alt_history, !.alt_history = s.history,
        !.display_offset = s.alt_display_offset,
        !.alt_display_offset = s.display_offset,
        !.history_size = s.alt_history_size,
        !.alt_history_size = s.history_size]

\* swap_alt that resets the grid it switches to when entering
swap_alt_cellsResetOnEnter(s) ==
    LET entered == IF ~s.alt
                   THEN ResetRows(s.grid, 0, s.num_lines, s.cursor.template)
                   ELSE s.grid IN
    SwapGrids([s EXCEPT !.grid = entered])

\* swap_alt with the grids: the alternate grid is reset when it is left
swap_alt_cells(s) ==
    LET left == IF s.alt
                THEN ResetRows(s.grid, 0, s.num_lines, s.cursor.template)
                ELSE s.grid IN
    SwapGrids([s EXCEPT !.grid = left])

SwapScreen == "SwapScreenAndSetRestoreCursor"

\* reset_state with the cells: the fields are reset in place, the grid that
\* is cleared is the one in self.grid, and neither the grids are swapped
\* back nor the scroll region is touched
reset_state_cells(s) ==
    [clear_history(s) EXCEPT
        !.input_needs_wrap = FALSE, !.alt = FALSE,
        !.cursor = CursorNew, !.mode = DefaultMode,
        !.cursor_save = CursorNew, !.cursor_save_alt = CursorNew,
        !.grid = ResetRows(@, 0, s.num_lines, DefaultCell)]

set_mode_cells(s, mode) ==
    IF mode = SwapScreen
    THEN LET a == save_cursor_position(
                      [s EXCEPT !.mode = @ \cup {"ALT_SCREEN"}])
             b == IF ~a.alt THEN swap_alt_cells(a) ELSE a IN
         save_cursor_position(b)
    ELSE set_mode(s, mode)

unset_mode_cells(s, mode) ==
    IF mode = SwapScreen
    THEN LET a == restore_cursor_position(
                      [s EXCEPT !.mode = @ \ {"ALT_SCREEN"}])
             b == IF a.alt THEN swap_alt_cells(a) ELSE a IN
         restore_cursor_position(b)
    ELSE unset_mode(s, mode)

\* terminal_attribute for Attr::Background(color), Attr::Bold, Attr::Reset
terminal_attribute(s, attr) ==
    CASE attr = "Background" -> [s EXCEPT !.cursor.template.bg = 1]
      [] attr = "Bold" -> [s EXCEPT !.cursor.template.flags = @ \cup {"BOLD"}]
      [] attr = "Reset" -> [s EXCEPT !.cursor.template.bg = 0,
                                     !.cursor.template.flags = {}]

\* the scroll regions set_scrolling_region leaves that hold a line
ScreenRegions(num_lines) ==
    { r \in [start : 0..(num_lines - 1), end : 1..num_lines] : r.start < r.end }

NoOp == [op |-> "none", arg |-> "none"]

\* Term::new, then possibly a first character written at the top left, a
\* set_scrolling_region and a goto
ScreenInitial(num_cols, region, line, col, text) ==
    LET new == [ScreenNew(ScreenLines, num_cols) EXCEPT
                   !.grid[0][0].c = IF text THEN "a" ELSE @,
                   !.scroll_region = region,
                   !.cursor.line = line, !.cursor.col = col] IN
    /\ sc_term = new
    /\ sc_prev = new
    /\ sc_last = NoOp
    /\ sc_entered = new.grid
    /\ sc_steps = 0

ScreenInit ==
    \E num_cols \in 2..MaxScreenCols, region \in ScreenRegions(ScreenLines),
       line \in 0..(ScreenLines - 1) :
        \E col \in 0..(num_cols - 1), text \in BOOLEAN :
            ScreenInitial(num_cols, region, line, col, text)

ScreenIdle ==
    ScreenInitial(2, [start |-> 0, end |-> ScreenLines], 0, 0, FALSE)

\* the handler operation op(arg) with result r
ScreenApply(op, arg, r) ==
    /\ sc_steps < MaxScreenOps
    /\ sc_term' = r
    /\ sc_prev' = sc_term
    /\ sc_last' = [op |-> op, arg |-> arg]
    /\ sc_entered' = IF op = "set_mode" /\ arg = SwapScreen /\ ~sc_term.alt
                     THEN sc_term.grid
                     ELSE sc_entered
    /\ sc_steps' = sc_steps + 1
    /\ UNCHANGED exceptScreen

ScreenInput ==
    \E c \in {"a", "W", "z"} : ScreenApply("input", c, input_cells(sc_term, c))

ScreenGoto ==
    \E line \in {0, ScreenLines - 1}, col \in {0, MaxScreenCols - 1} :
        ScreenApply("goto", "point", goto(sc_term, line, col))

ScreenLinefeed == ScreenApply("linefeed", "none", linefeed_cells(sc_term))

ScreenReverseIndex ==
    ScreenApply("reverse_index", "none", reverse_index_cells(sc_term))

ScreenCarriageReturn ==
    ScreenApply("carriage_return", "none", carriage_return(sc_term))

ScreenScrollUp == ScreenApply("scroll_up", "1", scroll_up_cells(sc_term, 1))

ScreenScrollDown ==
    ScreenApply("scroll_down", "1", scroll_down_cells(sc_term, 1))

\* the count of an operation as it is recorded in sc_last
CountArg(count) ==
    CASE count = 1 -> "1" [] count = 2 -> "2" [] count = 3 -> "3"
      [] OTHER -> "many"

ScreenInsertBlankLines ==
    \E count \in 1..ScreenLines :
        ScreenApply("insert_blank_lines", CountArg(count),
                    insert_blank_lines_cells(sc_term, count))

ScreenDeleteLines ==
    \E count \in 1..ScreenLines :
        ScreenApply("delete_lines", CountArg(count),
                    delete_lines_cells(sc_term, count))

ScreenInsertBlank ==
    \E count \in 1..(MaxScreenCols + 1) :
        ScreenApply("insert_blank", CountArg(count),
                    insert_blank(sc_term, count))

ScreenEraseChars == ScreenApply("erase_chars", "1", erase_chars(sc_term, 1))

ScreenDeleteChars ==
    \E count \in 1..(MaxScreenCols + 1) :
        ScreenApply("delete_chars", CountArg(count),
                    delete_chars(sc_term, count))

ScreenResetState ==
    ScreenApply("reset_state", "none", reset_state_cells(sc_term))

ScreenClearLine ==
    \E mode \in {"Right", "Left", "All"} :
        ScreenApply("clear_line", mode, clear_line(sc_term, mode))

ScreenClearScreen ==
    \E mode \in {"Below", "All", "Above", "Saved"} :
        ScreenApply("clear_screen", mode, clear_screen(sc_term, mode))

ScreenSetMode ==
    \E mode \in {SwapScreen, "LINE_WRAP"} :
        ScreenApply("set_mode", mode, set_mode_cells(sc_term, mode))

ScreenUnsetMode ==
    \E mode \in {SwapScreen, "LINE_WRAP"} :
        ScreenApply("unset_mode", mode, unset_mode_cells(sc_term, mode))

ScreenTerminalAttribute ==
    \E attr \in {"Background", "Bold", "Reset"} :
        ScreenApply("terminal_attribute", attr, terminal_attribute(sc_term, attr))

(***************************************************************************)
(* RAW TTY (src/src/tty.rs)                                                *)
(*                                                                         *)
(* Tty::open, into_raw_mode, RawTty::try_clone and Drop for RawTty.  The   *)
(* handle "output" is the RawTty into_raw_mode returns, "input" its clone  *)
(* (main.rs: tty_output and tty_input).  A clone keeps the descriptor      *)
(* number of the original (fd: self.fd) next to its own duplicated file,   *)
(* so its restoring call addresses the original's descriptor.  A call to   *)
(* tcgetattr or tcsetattr may fail.                                        *)
(***************************************************************************)
\* the attributes a terminal may have when the program starts
TermiosValues == {"canonical", "noecho", "raw"}

\* sys::attr::raw_terminal_attr: cfmakeraw
raw_terminal_attr(ios) == "raw"

RawTtyHandles == {"output", "input"}

\* the ways the owner of a handle goes away
DropCauses == {"return", "error", "panic"}

\* Drop for RawTty without the restoring call
RawTtyDropKeeps(termios, prev_ios, ok) == termios

\* Drop for RawTty: let _ = set_terminal_attr(self.fd, &self.prev_ios); the
\* terminal's attributes afterwards, ok saying whether the call succeeded
RawTtyDrop(termios, prev_ios, ok) == IF ok THEN prev_ios ELSE termios

TtyInitial(termios) ==
    /\ ty_termios = termios
    /\ ty_prev_ios = "none"
    /\ ty_pc = "open"
    /\ ty_handles = [h \in RawTtyHandles |-> "none"]
    /\ ty_cause = [h \in RawTtyHandles |-> "none"]
    /\ ty_restore = [h \in RawTtyHandles |-> "none"]
    /\ ty_propagated = FALSE

\* Tty::open returned a Tty
TtyInit == \E termios \in TermiosValues : TtyInitial(termios)

TtyIdle == TtyInitial("canonical")

\* into_raw_mode: get_terminal_attr fails (got = FALSE), set_terminal_attr
\* fails (set = FALSE), or the RawTty is returned
IntoRawMode(got, set) ==
    /\ ty_pc = "open"
    /\ IF ~got
       THEN /\ ty_pc' = "failed"
            /\ UNCHANGED <<ty_termios, ty_prev_ios, ty_handles>>
       ELSE IF ~set
       THEN /\ ty_pc' = "failed"
            /\ UNCHANGED <<ty_termios, ty_prev_ios, ty_handles>>
       ELSE /\ ty_pc' = "raw"
            /\ ty_prev_ios' = ty_termios
            /\ ty_termios' = raw_terminal_attr(ty_termios)
            /\ ty_handles' = [ty_handles EXCEPT !["output"] = "live"]
    /\ UNCHANGED <<ty_cause, ty_restore, ty_propagated>>
    /\ UNCHANGED exceptTty

\* RawTty::try_clone of the live original: Ok with a handle that copies fd
\* and prev_ios, or Err
TryClone(ok) ==
    /\ ty_handles["output"] = "live"
    /\ ty_handles["input"] = "none"
    /\ ty_handles' = [ty_handles EXCEPT !["input"] = IF ok THEN "live" ELSE @]
    /\ UNCHANGED <<ty_termios, ty_prev_ios, ty_pc, ty_cause, ty_restore,
                   ty_propagated>>
    /\ UNCHANGED exceptTty

\* the descriptor number a handle restores through is open: the original's
\* file is closed when the original has been dropped
FdOpen == ty_handles["output"] = "live"

\* Drop for RawTty of handle h, its owner returning, failing or unwinding;
\* ok is the result of tcsetattr, which fails on a closed descriptor
DropRawTty(h, cause, ok) ==
    /\ ty_handles[h] = "live"
    /\ ok => FdOpen
    /\ ty_termios' = RawTtyDrop(ty_termios, ty_prev_ios, ok)
    /\ ty_handles' = [ty_handles EXCEPT ![h] = "dropped"]
    /\ ty_cause' = [ty_cause EXCEPT ![h] = cause]
    /\ ty_restore' = [ty_restore EXCEPT ![h] = IF ok THEN "ok" ELSE "failed"]
    /\ UNCHANGED <<ty_prev_ios, ty_pc, ty_propagated>>
    /\ UNCHANGED exceptTty

(***************************************************************************)
(* FORWARDING OF ACTIONS                                                   *)
(*                                                                         *)
(* forward_stdin drives stdin.forward(Fanout::new(inputs)): the stream is   *)
(* the one run_gui returned, events through Ui::on_event flattened to       *)
(* actions, and the sink the Fanout over the children's input sinks.  The   *)
(* stream is polled by this Forward only: an event is consumed, fed to its  *)
(* emulator and drawn when Forward::poll polls the stream.  An input sink   *)
(* holds one item until the child reads it.  A user event yields one        *)
(* ProcessInputAll action, numbered by the event; a chunk of output yields  *)
(* none.                                                                    *)
(***************************************************************************)
\* the state Forward::poll works on
ForwardState(ds, buffered, actions, typed, user, written, fed) ==
    [ds |-> ds, buffered |-> buffered, actions |-> actions, typed |-> typed,
     user |-> user, written |-> written, fed |-> fed]

\* the children with a chunk of output the event stream has not yielded
OutputReady(st) == {d \in Down : st.fed[d] < st.written[d]}

\* the loop of Forward::poll: the stream is polled; an action it yields is
\* offered to the Fanout (try_start_send) and, handed back, is buffered and
\* ends the poll; the stream yields the actions of the last event, else
\* the next event goes through on_event (a user event, else a chunk of
\* output of the first child that has one); with no event the sink's
\* poll_complete is called and the poll ends
RECURSIVE ForwardLoop(_)
ForwardLoop(st) ==
    IF st.actions # <<>>
    THEN LET item == Head(st.actions)
             r == StartSend(st.ds, item)
             st1 == [st EXCEPT !.ds = r.ds, !.actions = Tail(@)] IN
         IF r.res = "NotReady" THEN [st1 EXCEPT !.buffered = item]
         ELSE ForwardLoop(st1)
    ELSE IF st.user < st.typed
    THEN ForwardLoop([st EXCEPT !.user = @ + 1, !.actions = <<st.user + 1>>])
    ELSE IF OutputReady(st) # {}
    THEN LET d == Min(OutputReady(st)) IN
         ForwardLoop([st EXCEPT !.fed[d] = @ + 1])
    ELSE [st EXCEPT !.ds = PollAll(st.ds).ds]

\* Forward::poll: a buffered action is offered to the Fanout first, and the
\* poll ends there when start_send hands it back
ForwardPollOf(st) ==
    IF st.buffered # 0
    THEN LET r == StartSend(st.ds, st.buffered) IN
         IF r.res = "NotReady" THEN [st EXCEPT !.ds = r.ds]
         ELSE ForwardLoop([st EXCEPT !.ds = r.ds, !.buffered = 0])
    ELSE ForwardLoop(st)

ForwardNew(reads) ==
    /\ fw_downstreams = [d \in Down |-> NewDownstream(1)]
    /\ fw_buffered = 0
    /\ fw_actions = <<>>
    /\ fw_typed = 0
    /\ fw_user = 0
    /\ fw_written = [d \in Down |-> 0]
    /\ fw_fed = [d \in Down |-> 0]
    /\ fw_reads = reads
    /\ fw_tick = FALSE

\* every child may or may not read its input
ForwardInit == \E reads \in [Down -> BOOLEAN] : ForwardNew(reads)

ForwardIdle == ForwardNew([d \in Down |-> TRUE])

\* the task of forward_stdin is polled
ForwardPoll ==
    /\ \E st \in {ForwardPollOf(ForwardState(fw_downstreams, fw_buffered,
                                             fw_actions, fw_typed, fw_user,
                                             fw_written, fw_fed))} :
          /\ fw_downstreams' = st.ds
          /\ fw_buffered' = st.buffered
          /\ fw_actions' = st.actions
          /\ fw_user' = st.user
          /\ fw_fed' = st.fed
    /\ fw_tick' = ~fw_tick
    /\ UNCHANGED <<fw_typed, fw_written, fw_reads>>
    /\ UNCHANGED exceptForward

\* the user types: the tty yields one more event
ForwardUserTypes ==
    /\ fw_typed < MaxTyped
    /\ fw_typed' = fw_typed + 1
    /\ UNCHANGED <<fw_downstreams, fw_buffered, fw_actions, fw_user,
                   fw_written, fw_fed, fw_reads, fw_tick>>
    /\ UNCHANGED exceptForward

\* child d writes a chunk of output to its PTY
ForwardChildWrites(d) ==
    /\ fw_written[d] < MaxWritten
    /\ fw_written' = [fw_written EXCEPT ![d] = @ + 1]
    /\ UNCHANGED <<fw_downstreams, fw_buffered, fw_actions, fw_typed, fw_user,
                   fw_fed, fw_reads, fw_tick>>
    /\ UNCHANGED exceptForward

\* child d reads the input its sink holds
ForwardChildReads(d) ==
    /\ fw_reads[d]
    /\ fw_downstreams[d].sink.n > 0
    /\ fw_downstreams' = [fw_downstreams EXCEPT ![d].sink.n = @ - 1]
    /\ UNCHANGED <<fw_buffered, fw_actions, fw_typed, fw_user, fw_written,
                   fw_fed, fw_reads, fw_tick>>
    /\ UNCHANGED exceptForward

(***************************************************************************)
(* SPECIFICATIONS                                                          *)
(***************************************************************************)
InitFanout ==
    /\ FanoutInit
    /\ SelectAllIdle /\ MainIdle /\ CodecIdle /\ ArgsIdle /\ InputIdle
    /\ OutputIdle /\ GuiIdle /\ TermIdle /\ SearchIdle /\ ScreenIdle
    /\ TtyIdle /\ ForwardIdle

NextFanout ==
    \/ FanoutStartSend
    \/ FanoutPollComplete
    \/ FanoutClose
    \/ \E d \in Down : SinkDrain(d)
    \/ \E d \in Down : SinkFail(d)

SpecFanout == InitFanout /\ [][NextFanout]_vars

\* The caller (Forward in forward_stdin) keeps driving the Fanout until an
\* operation fails or the stream it forwards has ended: every call of
\* start_send, poll_complete and close flips f_tick.
FanoutDriven == ~f_failed /\ ~f_closing /\ f_tick' = ~f_tick

FairSpecFanout ==
    /\ InitFanout
    /\ [][NextFanout]_vars
    /\ WF_f_tick(FanoutDriven)

InitSelectAll ==
    /\ SelectAllInit
    /\ FanoutIdle /\ MainIdle /\ CodecIdle /\ ArgsIdle /\ InputIdle
    /\ OutputIdle /\ GuiIdle /\ TermIdle /\ SearchIdle /\ ScreenIdle
    /\ TtyIdle /\ ForwardIdle

NextSelectAll ==
    \/ SelectAllPoll
    \/ \E s \in Streams : StreamWake(s)

SpecSelectAll == InitSelectAll /\ [][NextSelectAll]_vars

InitMain ==
    /\ MainInit
    /\ FanoutIdle /\ SelectAllIdle /\ CodecIdle /\ ArgsIdle /\ InputIdle
    /\ OutputIdle /\ GuiIdle /\ TermIdle /\ SearchIdle /\ ScreenIdle
    /\ TtyIdle /\ ForwardIdle

NextMain ==
    \/ \E i \in Children : ChildExits(i)
    \/ EventUserInput
    \/ \E i \in Children : EventProcessExit(i)
    \/ EventEndOfUserInput
    \/ RestIntoFuture
    \/ EventError

SpecMain == InitMain /\ [][NextMain]_vars

InitCodec ==
    /\ CodecInit
    /\ FanoutIdle /\ SelectAllIdle /\ MainIdle /\ ArgsIdle /\ InputIdle
    /\ OutputIdle /\ GuiIdle /\ TermIdle /\ SearchIdle /\ ScreenIdle
    /\ TtyIdle /\ ForwardIdle

NextCodec ==
    \/ FramedDecode
    \/ FramedReadBuf
    \/ FramedDecodeEof

SpecCodec == InitCodec /\ [][NextCodec]_vars

InitArgs ==
    /\ ArgsInit
    /\ FanoutIdle /\ SelectAllIdle /\ MainIdle /\ CodecIdle /\ InputIdle
    /\ OutputIdle /\ GuiIdle /\ TermIdle /\ SearchIdle /\ ScreenIdle
    /\ TtyIdle /\ ForwardIdle

NextArgs == ArgsRead

SpecArgs == InitArgs /\ [][NextArgs]_vars

InitInput ==
    /\ InputInit
    /\ FanoutIdle /\ SelectAllIdle /\ MainIdle /\ CodecIdle /\ ArgsIdle
    /\ OutputIdle /\ GuiIdle /\ TermIdle /\ SearchIdle /\ ScreenIdle
    /\ TtyIdle /\ ForwardIdle

NextInput ==
    \/ PiStartSend
    \/ PiPollComplete
    \/ PiClose
    \/ PtyChange

SpecInput == InitInput /\ [][NextInput]_vars

InitOutput ==
    /\ OutputInit
    /\ FanoutIdle /\ SelectAllIdle /\ MainIdle /\ CodecIdle /\ ArgsIdle
    /\ InputIdle /\ GuiIdle /\ TermIdle /\ SearchIdle /\ ScreenIdle
    /\ TtyIdle /\ ForwardIdle

NextOutput ==
    \/ PoPoll
    \/ PtyReadChange

SpecOutput == InitOutput /\ [][NextOutput]_vars

InitGui ==
    /\ GuiInit
    /\ FanoutIdle /\ SelectAllIdle /\ MainIdle /\ CodecIdle /\ ArgsIdle
    /\ InputIdle /\ OutputIdle /\ TermIdle /\ SearchIdle /\ ScreenIdle
    /\ TtyIdle /\ ForwardIdle


NextGui ==
    \/ GuiUserInput
    \/ GuiUserInputEnds
    \/ GuiEndOfUserInput
    \/ \E idx \in Indices(g_args) : GuiProcessOutput(idx)
    \/ \E idx \in Indices(g_args) : GuiOutputEnds(idx)
    \/ \E idx \in Indices(g_args) : GuiProcessExit(idx)
    \/ GuiResized
    \/ GuiError
    \/ GuiForward

SpecGui == InitGui /\ [][NextGui]_vars

InitTerm ==
    /\ TermInit
    /\ FanoutIdle /\ SelectAllIdle /\ MainIdle /\ CodecIdle /\ ArgsIdle
    /\ InputIdle /\ OutputIdle /\ GuiIdle /\ SearchIdle /\ ScreenIdle
    /\ TtyIdle /\ ForwardIdle


NextTerm ==
    \/ TermInput
    \/ TermGoto
    \/ TermGotoLine
    \/ TermGotoCol
    \/ TermMoveUp
    \/ TermMoveDown
    \/ TermMoveForward
    \/ TermMoveBackward
    \/ TermMoveDownAndCr
    \/ TermMoveUpAndCr
    \/ TermPutTab
    \/ TermMoveBackwardTabs
    \/ TermBackspace
    \/ TermCarriageReturn
    \/ TermLinefeed
    \/ TermNewline
    \/ TermReverseIndex
    \/ TermScrollUp
    \/ TermScrollDown
    \/ TermInsertBlankLines
    \/ TermDeleteLines
    \/ TermCellOp
    \/ TermSaveCursor
    \/ TermRestoreCursor
    \/ TermSetMode
    \/ TermUnsetMode
    \/ TermSetScrollingRegion
    \/ TermResetState
    \/ TermResize

SpecTerm == InitTerm /\ [][NextTerm]_vars

InitSearch ==
    /\ SearchInit
    /\ FanoutIdle /\ SelectAllIdle /\ MainIdle /\ CodecIdle /\ ArgsIdle
    /\ InputIdle /\ OutputIdle /\ GuiIdle /\ TermIdle /\ ScreenIdle
    /\ TtyIdle /\ ForwardIdle

NextSearch ==
    \/ \E p \in SearchPoints : SearchSelect(p)
    \/ SearchLeft
    \/ SearchRight

SpecSearch == InitSearch /\ [][NextSearch]_vars

InitScreen ==
    /\ ScreenInit
    /\ FanoutIdle /\ SelectAllIdle /\ MainIdle /\ CodecIdle /\ ArgsIdle
    /\ InputIdle /\ OutputIdle /\ GuiIdle /\ TermIdle /\ SearchIdle
    /\ TtyIdle /\ ForwardIdle

NextScreen ==
    \/ ScreenInput
    \/ ScreenGoto
    \/ ScreenLinefeed
    \/ ScreenReverseIndex
    \/ ScreenCarriageReturn
    \/ ScreenScrollUp
    \/ ScreenScrollDown
    \/ ScreenInsertBlankLines
    \/ ScreenDeleteLines
    \/ ScreenInsertBlank
    \/ ScreenEraseChars
    \/ ScreenDeleteChars
    \/ ScreenClearLine
    \/ ScreenClearScreen
    \/ ScreenSetMode
    \/ ScreenUnsetMode
    \/ ScreenTerminalAttribute
    \/ ScreenResetState

SpecScreen == InitScreen /\ [][NextScreen]_vars

InitTty ==
    /\ TtyInit
    /\ FanoutIdle /\ SelectAllIdle /\ MainIdle /\ CodecIdle /\ ArgsIdle
    /\ InputIdle /\ OutputIdle /\ GuiIdle /\ TermIdle /\ SearchIdle
    /\ ScreenIdle /\ ForwardIdle

NextTty ==
    \/ \E got \in BOOLEAN, set \in BOOLEAN : IntoRawMode(got, set)
    \/ \E ok \in BOOLEAN : TryClone(ok)
    \/ \E h \in RawTtyHandles, cause \in DropCauses, ok \in BOOLEAN :
           DropRawTty(h, cause, ok)

SpecTty == InitTty /\ [][NextTty]_vars

InitForward ==
    /\ ForwardInit
    /\ FanoutIdle /\ SelectAllIdle /\ MainIdle /\ CodecIdle /\ ArgsIdle
    /\ InputIdle /\ OutputIdle /\ GuiIdle /\ TermIdle /\ SearchIdle
    /\ ScreenIdle /\ TtyIdle

NextForward ==
    \/ ForwardPoll
    \/ ForwardUserTypes
    \/ \E d \in Down : ForwardChildWrites(d)
    \/ \E d \in Down : ForwardChildReads(d)

SpecForward == InitForward /\ [][NextForward]_vars

\* the task of forward_stdin keeps being polled: every poll flips fw_tick
ForwardPolled == fw_tick' = ~fw_tick

FairSpecForward ==
    /\ InitForward
    /\ [][NextForward]_vars
    /\ WF_fw_tick(ForwardPolled)

(***************************************************************************)
(* Fanout: properties.                                                     *)
(***************************************************************************)
Pending(d) == ~IsReady(downstreams[d])

Received(d) == downstreams[d].sink.received

NoDownstreamError == \A d \in Down : ~downstreams[d].sink.err

\* every downstream has received a prefix of the accepted items: no item
\* twice, none skipped, none out of order
ReceivedInOrder == \A d \in Down : IsPrefix(Received(d), f_accepted)

\* every downstream eventually accepts the item offered to it: no downstream
\* holds a pending item forever (the same as Pending(d) ~> ~Pending(d))
EventuallyAccepts == \A d \in Down : []<>(~Pending(d))

EventuallyDelivered ==
    \A d \in Down : \A k \in Items :
        (k \in Range(f_accepted)) ~> (k \in Range(Received(d)))

OneSlowSink ==
    \E d \in Down : /\ downstreams[d].sink.cap = 1
                    /\ \A e \in Down \ {d} : downstreams[e].sink.cap = 0

\* C2: start_send(x) retries every pending item first; it returns Ready and
\* offers x to every downstream iff no downstream is pending after the retry,
\* else it returns NotReady and offers x to nobody.  With one downstream of
\* capacity 1 among unbounded ones that never drains, three pushes return
\* Ready, Ready, NotReady.
C2_StartSendReadyIffAllReady ==
    /\ (f_last.op = "start_send" /\ f_last.res # "Err") =>
          /\ f_last.retried = f_last.before
          /\ (f_last.res = "Ready") <=> (f_last.still = {})
          /\ f_last.res = "Ready" =>
                /\ f_last.offered = Down
                /\ \A d \in Down :
                      IF Pending(d) THEN downstreams[d].state.item = f_last.item
                      ELSE /\ Received(d) # <<>>
                           /\ Received(d)[Len(Received(d))] = f_last.item
          /\ f_last.res = "NotReady" =>
                /\ f_last.offered = {}
                /\ \A d \in Down : f_last.item \notin Range(Received(d))
    /\ (OneSlowSink /\ ~f_drained /\ NoDownstreamError /\ Len(f_log) >= 3) =>
          SubSeq(f_log, 1, 3) = <<"Ready", "Ready", "NotReady">>

\* the third push was refused after the retry of the slow sink's pending item
C2_Witness ==
    /\ OneSlowSink /\ ~f_drained /\ NoDownstreamError
    /\ f_log = <<"Ready", "Ready", "NotReady">>
    /\ f_last.op = "start_send" /\ f_last.res = "NotReady"
    /\ f_last.retried # {}

(***************************************************************************)
(* SelectAll: properties.                                                  *)
(***************************************************************************)
\* C3: the merged stream reports its end only when no member stream remains
\* in the set: a member that ends is removed without ending the merged
\* stream, so the items of the other members are still to be yielded.
C3_EndOnlyWhenEmpty == sa_last = "End" => sa_inner = {}

(***************************************************************************)
(* run_with_options: properties.                                           *)
(***************************************************************************)
AllReaped == \A i \in Children : m_exit_status[i] # "none"

SomeChildFailed == \E i \in Children : m_child[i] = "failure"

\* C4: after the end of the user input run_with_options returns only after
\* the exit future of every child has resolved.
C4_ReturnsAfterAllReaped ==
    (m_pc = "returned" /\ m_result = "Ok") => AllReaped

\* C5: the exit code of the program is 1 whenever a child has exited
\* unsuccessfully, and 0 only if every child has exited successfully.
C5_ExitCodeReflectsChildren ==
    m_pc = "returned" =>
        /\ SomeChildFailed => ExitCode(m_result) = 1
        /\ ExitCode(m_result) = 0 =>
               \A i \in Children : m_child[i] = "success"

(***************************************************************************)
(* Delimiter codec: properties.                                            *)
(***************************************************************************)
\* the maximal non-empty runs of non-delimiter bytes of input, in order
RECURSIVE RunsFrom(_, _, _, _)
RunsFrom(delimiter, bytes, i, run) ==
    LET closed == IF run = <<>> THEN <<>> ELSE <<run>> IN
    IF i > Len(bytes) THEN closed
    ELSE IF IsDelimiter(delimiter, bytes[i])
         THEN closed \o RunsFrom(delimiter, bytes, i + 1, <<>>)
         ELSE RunsFrom(delimiter, bytes, i + 1, Append(run, bytes[i]))

Runs(delimiter, bytes) == RunsFrom(delimiter, bytes, 1, <<>>)

\* C6: no token the codec emits is empty, and no token contains a
\* delimiter byte, whatever the input, the delimiter and the read chunks.
C6_TokensNonEmptyNoDelimiter ==
    \A k \in 1..Len(c_frames) :
        /\ c_frames[k] # <<>>
        /\ \A j \in 1..Len(c_frames[k]) :
               ~IsDelimiter(c_delimiter, c_frames[k][j])

\* C7: the tokens emitted for an input are its maximal non-empty runs of
\* non-delimiter bytes, in input order, however the input is read.
C7_TokensAreMaximalRuns ==
    c_done => c_frames = Runs(c_delimiter, c_input)

(***************************************************************************)
(* Template expansion: properties.                                         *)
(***************************************************************************)
Placeholders(T, replace) == {j \in 1..Len(T) : IsPlaceholder(replace, T[j])}

\* the expansion of template T with token x
Expand(T, replace, x) ==
    IF Placeholders(T, replace) = {} THEN T \o <<x>>
    ELSE [j \in 1..Len(T) |-> IF j \in Placeholders(T, replace) THEN x ELSE T[j]]

\* C8: without a placeholder the argv is the template followed by the
\* token; with k >= 1 placeholders it is the template with the token in
\* place of each placeholder, of the template's length; specific is the
\* token.
C8_TemplateExpansion ==
    \A k \in 1..Len(a_args) :
        /\ a_args[k].specific = a_tokens[k]
        /\ a_args[k].all = Expand(a_initial_args, a_replace, a_tokens[k])
        /\ Len(a_args[k].all) =
               IF Placeholders(a_initial_args, a_replace) = {}
               THEN Len(a_initial_args) + 1 ELSE Len(a_initial_args)

C8_Witness ==
    /\ Len(a_args) = MaxArgs
    /\ Cardinality(Placeholders(a_initial_args, a_replace)) >= 2
    /\ Len(a_initial_args) = MaxTemplate
    /\ a_replace # <<>>
    /\ a_tokens[1] # a_tokens[2]

(***************************************************************************)
(* Child input sink: properties.                                           *)
(***************************************************************************)
\* C9: a start_send or poll_complete that meets BrokenPipe returns Ready
\* and closes the sink; a closed sink stays closed, and every call on it
\* returns Ready and leaves the PTY writer alone.
C9_BrokenPipeAbsorbed ==
    [][ pi_tick' # pi_tick =>
          /\ (pi_last'.op \in {"start_send", "poll_complete"}
                 /\ pi_last'.met = "Err(BrokenPipe)")
               => (pi_last'.res = "Ready" /\ pi_sink' = "None")
          /\ pi_sink = "None"
               => /\ pi_sink' = "None"
                  /\ pi_last'.res = "Ready"
                  /\ pi_last'.inner = "untouched"
                  /\ pi_buf' = pi_buf
      ]_vars

C9_Witness ==
    /\ pi_sink = "None"
    /\ pi_last.op = "close"
    /\ pi_last.inner = "untouched"
    /\ pi_last.res = "Ready"
    /\ pi_pty = "broken"

\* C10: no operation of the sink returns a BrokenPipe error, and an error
\* of another kind leaves the sink open.
C10_NeverReturnsBrokenPipe ==
    /\ pi_last.res # "Err(BrokenPipe)"
    /\ pi_last.res = "Err(Other)" => pi_sink = "Some"

(***************************************************************************)
(* Child output stream: properties.                                        *)
(***************************************************************************)
\* C11: a poll that meets OS error 5 (EIO) answers end-of-stream, not an
\* error, and drops the reader; from then on every poll answers
\* end-of-stream without polling the PTY; any other error is returned and
\* leaves the stream open.
C11_EioIsEndOfStream ==
    [][ po_tick' # po_tick =>
          /\ po_last'.res # "Err(EIO)"
          /\ po_last'.met = "Err(EIO)"
               => (po_last'.res = "End" /\ po_stream' = "None")
          /\ po_stream = "None"
               => /\ po_stream' = "None"
                  /\ po_last'.res = "End"
                  /\ po_last'.inner = "untouched"
          /\ po_last'.met = "Err(Other)"
               => (po_last'.res = "Err(Other)" /\ po_stream' = "Some")
      ]_vars

C11_Witness ==
    /\ po_stream = "None"
    /\ po_last.res = "End"
    /\ po_last.inner = "untouched"
    /\ po_pty = "data"
    /\ po_yielded > 0

(***************************************************************************)
(* Fanout: poll_complete and close.                                        *)
(***************************************************************************)
\* C12: every call of Fanout::poll_complete flushes all downstreams: it
\* calls poll_complete on every downstream, also on those after one that
\* is not ready.
C12_PollCompleteFlushesAll ==
    (f_last.op = "poll_complete" /\ f_last.res # "Err") =>
        f_last.offered = Down

\* C13: Fanout::poll_complete returns Ready iff in that call every
\* downstream was polled, holds no pending item after the retry, and its
\* sink's own poll_complete reported Ready.
C13_PollCompleteReadyIff ==
    [][ (f_tick' # f_tick /\ f_last'.op = "poll_complete") =>
          (f_last'.res = "Ready" <=>
              /\ f_last'.offered = Down
              /\ \A d \in Down :
                    /\ IsReady(downstreams'[d])
                    /\ ~SinkPollComplete(downstreams'[d].sink).err
                    /\ SinkPollComplete(downstreams'[d].sink).ready)
      ]_vars

C13_Witness ==
    /\ f_last.op = "poll_complete"
    /\ f_last.res = "Ready"
    /\ f_last.offered = Down
    /\ "NotReady" \in Range(f_log)
    /\ Len(f_accepted) = MaxItems
    /\ \A d \in Down : Received(d) = f_accepted

\* what each downstream has of the accepted items: received by its sink, or
\* held as its pending item
Held(d) ==
    Received(d) \o (IF Pending(d) THEN <<downstreams[d].state.item>> ELSE <<>>)

\* C14: Fanout::close calls close on a downstream sink only when the
\* downstream holds no pending item after the retry; it returns Ready only
\* when the close of every downstream sink has returned Ready; and no
\* accepted item is dropped: a sink is closed only with every accepted
\* item received.
C14_CloseAfterFlush ==
    /\ [][ (f_tick' # f_tick /\ f_last'.op = "close") =>
            /\ \A d \in CloseAll(downstreams).closed :
                   IsReady(downstreams'[d])
            /\ f_last'.res = "Ready" =>
                   \A d \in Down : downstreams'[d].sink.closed
          ]_vars
    /\ [](NoDownstreamError =>
             \A d \in Down :
                /\ Held(d) = f_accepted
                /\ downstreams[d].sink.closed => Received(d) = f_accepted)

C14_Witness ==
    /\ f_last.op = "close"
    /\ f_last.res = "Ready"
    /\ Len(f_accepted) = MaxItems
    /\ \E d \in Down : downstreams[d].sink.cap = 1
    /\ "NotReady" \in Range(f_log)
    /\ \A d \in Down : downstreams[d].sink.closed


(***************************************************************************)
(* Event loop and UI: properties.                                          *)
(***************************************************************************)

\* C15: the event stream ends only at the EndOfUserInput sentinel, which
\* is yielded only after the user input has ended (also when every child
\* has exited and the output stream has ended), and once it has ended no
\* event is processed: the UI state and the last processed event stay.
C15_EndsAtEndOfUserInput ==
    /\ [](g_done => g_user_ended /\ g_last.event.type = "EndOfUserInput")
    /\ [][g_done => /\ g_ui' = g_ui
                    /\ g_last' = g_last
                    /\ g_done']_vars
    /\ [][g_done' # g_done => /\ g_user_ended
                              /\ g_actions = <<>>
                              /\ g_ui' = g_ui]_vars

\* every child has exited and been reported, the output stream has ended,
\* and the event stream has gone on until the user input ended
C15_Witness ==
    /\ g_done
    /\ g_user = MaxInput
    /\ g_output_done
    /\ NumProcesses = NumChildren
    /\ \A idx \in Indices(g_args) : g_child[idx] = "reported"

\* the last processed event is a UserInput event
LastIsUserInput == g_last.event.type \in {"Key", "Mouse", "Unsupported"}

\* the ProcessInputAll actions the last event produced
LastInputAll ==
    {k \in 1..Len(g_last.actions) : g_last.actions[k].type = "ProcessInputAll"}

\* the 1-based position of the last event lies on the screen, that is in
\* the tab column or in the process pane
LastOnScreen ==
    /\ g_last.event.x \in 1..g_size.width
    /\ g_last.event.y \in 1..g_size.height

\* C16: for a UserInput event the UI emits ProcessInputAll(raw bytes), once
\* and first, iff it did not consume the event; a key event is never
\* consumed and, once the actions are forwarded, its bytes are in every
\* child's input sink; a mouse event on the screen (tab column or process
\* pane) is consumed and its bytes are in no action and in no input sink.
C16_InputAllIffNotConsumed ==
    LastIsUserInput =>
        /\ g_last.handled <=> LastInputAll = {}
        /\ ~g_last.handled =>
              /\ LastInputAll = {1}
              /\ g_last.actions[1].data = g_last.event.data
        /\ g_last.event.type \in {"Key", "Unsupported"} => ~g_last.handled
        /\ (g_last.event.type = "Key" /\ g_actions = <<>>
                /\ g_result = "none") =>
              \A idx \in Indices(g_args) :
                  g_last.event.data \in Range(g_sink[idx])
        /\ (g_last.event.type = "Mouse" /\ LastOnScreen) => g_last.handled
        /\ g_last.handled =>
              /\ \A k \in 1..Len(g_actions) :
                    g_actions[k].data # g_last.event.data
              /\ \A idx \in Indices(g_args) :
                    g_last.event.data \notin Range(g_sink[idx])

\* a key event has reached both children while the second tab is selected
C16_Witness ==
    /\ g_last.event.type = "Key"
    /\ g_ui.selected = 1
    /\ g_actions = <<>>
    /\ \A idx \in Indices(g_args) : g_last.event.data \in Range(g_sink[idx])

\* a mouse event in the process pane was consumed after an earlier event
\* was sent to the children
C16_WitnessConsumed ==
    /\ g_last.event.type = "Mouse"
    /\ g_last.event.x > TabsWidth
    /\ LastOnScreen
    /\ g_last.handled
    /\ g_user = MaxInput
    /\ g_sink[0] # <<>>

\* the ProcessInput(idx, data) actions not yet forwarded
PendingInputs(idx, data) ==
    Cardinality({k \in 1..Len(g_actions) :
                    g_actions[k] = [type |-> "ProcessInput", index |-> idx,
                                    data |-> data]})

\* C17: the bytes emulator i wrote in reply to a chunk of its child are
\* emitted exactly once, as ProcessInput(i, bytes), by the event that fed
\* the chunk (no emulator keeps input after an event); they are written,
\* once, to the input sink of child i and never to the sink of another
\* child; a ProcessInputAll action is written to every child's input sink.
C17_RepliesToOwnChildOnly ==
    /\ [](\A idx \in Indices(g_args) :
            /\ g_ui.processes[idx].input = <<>>
            /\ \A k \in 1..MaxChunks :
                 LET data == ReplyBytes(idx, k)
                     emitted == k <= g_read[idx] /\ HasQuery(idx, k) IN
                 /\ PendingInputs(idx, data) + Count(g_sink[idx], data)
                       = IF emitted THEN 1 ELSE 0
                 /\ \A j \in Indices(g_args) \ {idx} :
                       /\ Count(g_sink[j], data) = 0
                       /\ PendingInputs(j, data) = 0)
    /\ [][\A idx \in Indices(g_args) :
            g_read'[idx] # g_read[idx] =>
               g_last'.actions =
                  IF HasQuery(idx, g_read'[idx])
                  THEN <<[type |-> "ProcessInput", index |-> idx,
                          data |-> ReplyBytes(idx, g_read'[idx])]>>
                  ELSE <<>>]_vars
    /\ [][g_sink' # g_sink =>
            /\ g_actions # <<>>
            /\ g_actions' = Tail(g_actions)
            /\ \A j \in Indices(g_args) :
                 g_sink'[j] =
                    IF \/ Head(g_actions).type = "ProcessInputAll"
                       \/ Head(g_actions).index = j
                    THEN Append(g_sink[j], Head(g_actions).data)
                    ELSE g_sink[j]]_vars

\* both children have had a reply written to their own sink, and a key
\* event has been written to both sinks
C17_Witness ==
    /\ NumProcesses = NumChildren
    /\ g_actions = <<>>
    /\ \A idx \in Indices(g_args) :
          /\ \E k \in 1..MaxChunks : Count(g_sink[idx], ReplyBytes(idx, k)) = 1
          /\ \E n \in 1..MaxInput : Count(g_sink[idx], <<[user |-> n]>>) = 1

\* the bytes of the first n chunks of child c, in the order of the PTY
RECURSIVE OutputBytes(_, _)
OutputBytes(c, n) ==
    IF n = 0 THEN <<>> ELSE OutputBytes(c, n - 1) \o ChunkBytes(c, n)

\* C18: what emulator i has been fed is exactly the bytes of the chunks of
\* child i that the event stream has yielded, each once, byte by byte in
\* the order they were read from its PTY; an event feeds only the emulator
\* of the child whose chunk it carries, and user input, exits and resizes
\* feed none.
C18_OutputInOrder ==
    /\ [](\A idx \in Indices(g_args) :
            g_ui.processes[idx].fed = OutputBytes(idx, g_read[idx]))
    /\ [][\A idx \in Indices(g_args) :
            g_ui'.processes[idx].fed # g_ui.processes[idx].fed =>
               /\ g_last'.event.type = "ProcessOutput"
               /\ g_last'.event.idx = idx
               /\ g_read'[idx] = g_read[idx] + 1
               /\ g_ui'.processes[idx].fed =
                     g_ui.processes[idx].fed \o ChunkBytes(idx, g_read'[idx])
               /\ \A j \in Indices(g_args) \ {idx} :
                     g_ui'.processes[j].fed = g_ui.processes[j].fed]_vars

\* both emulators have been fed all their chunks, the second child's first
\* chunk before the first child's last, with user input, an exit and a
\* resize in between
C18_Witness ==
    /\ NumProcesses = NumChildren
    /\ \A idx \in Indices(g_args) : Len(g_ui.processes[idx].fed) = 2 * MaxChunks
    /\ g_user = MaxInput
    /\ \E idx \in Indices(g_args) : g_child[idx] = "reported"
    /\ g_last.event.type = "ProcessOutput"
    /\ g_last.event.idx = 0
    /\ g_ui.last_size.height = 3

\* the replies (bytes written by an emulator) among the data of a sink
RepliesIn(sink) ==
    {sink[k][1] : k \in {j \in 1..Len(sink) : "reply" \in DOMAIN sink[j][1]}}

C20_CursorInGrid ==
    /\ t_term.cursor.line \in 0..(t_term.num_lines - 1)
    /\ t_term.cursor.col \in 0..(t_term.num_cols - 1)

\* C27: in every reachable terminal state input_needs_wrap implies that
\* the cursor is in the last column.
C27_WrapOnlyInLastColumn ==
    (t_term.input_needs_wrap /\ ~t_term.panicked) =>
        t_term.cursor.col = t_term.num_cols - 1

(***************************************************************************)
(* Semantic search: properties.                                            *)
(***************************************************************************)
\* C24: semantic_search_left is idempotent: for every grid content, every
\* set of escape characters and every point, searching left from the result
\* of a left search returns that result again.
C24_SearchLeftIdempotent ==
    ss_op = "left" =>
        semantic_search_left(ss_grid, ss_escape, ss_point) = ss_point

\* a left search that moved the point, across a wrapped row boundary
C24_Witness ==
    /\ ss_op = "left"
    /\ ss_point.line > ss_from.line
    /\ ss_point.col > 0
    /\ ss_escape # {}

\* position of a point in reading order (oldest row first)
SearchPos(p) == (SearchLines - 1 - p.line) * SearchCols + p.col

\* the cells of the grid, as points
GridPoints == [line : 0..SearchLines-1, col : 0..SearchCols-1]

\* C25: semantic expansion around a point that is not itself an escape
\* character covers exactly the maximal run of cells around it that holds
\* no escape character, and the run crosses from a row to the next one only
\* where the last cell of the upper row carries WRAPLINE.
C25_ExpansionIsMaximalRun ==
    LET p == LimitToGrid(ss_grid, ss_point)
        l == semantic_search_left(ss_grid, ss_escape, ss_point)
        r == semantic_search_right(ss_grid, ss_escape, ss_point)
        Run == { x \in GridPoints : SearchPos(l) <= SearchPos(x) /\ SearchPos(x) <= SearchPos(r) }
        Stops(x) == \/ ss_grid[x.line][x.col].c \in ss_escape
    IN  (ss_op = "select" /\ ss_grid[p.line][p.col].c \notin ss_escape) =>
            /\ p \in Run
            /\ \A x \in Run : ss_grid[x.line][x.col].c \notin ss_escape
            /\ \A x \in Run : (x.col = LastCol(ss_grid) /\ x # r) =>
                                  ss_grid[x.line][x.col].wrapline
            /\ \/ ~IterHasPrev(ss_grid, l)
               \/ LET b == IterPrev(ss_grid, l)
                  IN  Stops(b) \/ ~ss_grid[b.line][b.col].wrapline
            /\ \/ ~IterHasNext(ss_grid, r)
               \/ Stops(IterNext(ss_grid, r))
               \/ (r.col = LastCol(ss_grid) /\ ~ss_grid[r.line][r.col].wrapline)

(***************************************************************************)
(* Terminal emulator, cells: properties.                                   *)
(***************************************************************************)
\* the cell of the grid g at a line and column
CellAt(g, line, col) == g[line][col]

\* the cursor of a terminal with cells stays inside its grid
ScreenCursorInGrid ==
    /\ sc_term.cursor.line < sc_term.num_lines
    /\ sc_term.cursor.col < sc_term.num_cols

\* the last operation was an input of c that was not dropped (a pending wrap
\* with LINE_WRAP unset drops the character)
Wrote(c) ==
    /\ sc_last.op = "input"
    /\ sc_last.arg = c
    /\ ~(sc_prev.input_needs_wrap /\ "LINE_WRAP" \notin sc_prev.mode)

\* the column that input writes its glyph to: column 0 after a wrap
WrittenCol == IF sc_prev.input_needs_wrap THEN 0 ELSE sc_prev.cursor.col

\* C29: writing a width-2 character, for every cursor column, stores the
\* glyph in the cursor's cell with WIDE_CHAR and makes the next cell of the
\* same row a copy of the template carrying WIDE_CHAR_SPACER.
C29_WideCharFollowedBySpacer ==
    Wrote("W") =>
        LET line == sc_term.cursor.line
            col == WrittenCol
            template == sc_term.cursor.template IN
        /\ CellAt(sc_term.grid, line, col) =
               [template EXCEPT !.c = "W", !.flags = @ \cup {"WIDE_CHAR"}]
        /\ col + 1 < sc_term.num_cols
        /\ CellAt(sc_term.grid, line, col + 1) =
               [template EXCEPT !.flags = @ \cup {"WIDE_CHAR_SPACER"}]

\* C28: a zero-width character typed with no wrap pending is appended to the
\* combining-character list of the cell at column col-1, or of the cell at
\* column col-2 when the cell at col-1 is a WIDE_CHAR_SPACER, and changes no
\* other cell.
C28_ZeroWidthOnPrecedingGlyph ==
    LET line == sc_prev.cursor.line
        col == sc_prev.cursor.col
        spacer == "WIDE_CHAR_SPACER" \in CellAt(sc_prev.grid, line, col - 1).flags
        target == IF spacer THEN col - 2 ELSE col - 1 IN
    (Wrote("z") /\ ~sc_prev.input_needs_wrap /\ col >= 1 /\ (spacer => col >= 2)) =>
        sc_term.grid = [sc_prev.grid EXCEPT ![line][target] = push_extra(@, "z")]

\* the cells clear_screen(mode) is to reset, for the cursor at (line, col)
InClearScreen(mode, line, col, l, k) ==
    CASE mode = "Above" -> l < line \/ (l = line /\ k <= col)
      [] mode = "Below" -> l > line \/ (l = line /\ k >= col)
      [] mode = "All" -> TRUE

\* C30: clear_screen(Above) resets the lines above the cursor line and the
\* cursor line's cells up to the cursor column, clear_screen(Below) the
\* cursor line's cells from the cursor column and the lines below,
\* clear_screen(All) every visible cell; a reset cell is the template with
\* no flags, every other cell is unchanged and the cursor does not move.
C30_ClearScreenResetsItsCells ==
    (sc_last.op = "clear_screen" /\ sc_last.arg # "Saved") =>
        LET line == sc_prev.cursor.line
            col == sc_prev.cursor.col
            template == [sc_prev.cursor.template EXCEPT !.flags = {}] IN
        /\ sc_term.cursor = sc_prev.cursor
        /\ \A l \in DOMAIN sc_prev.grid : \A k \in DOMAIN sc_prev.grid[l] :
               CellAt(sc_term.grid, l, k) =
                   IF InClearScreen(sc_last.arg, line, col, l, k)
                   THEN template
                   ELSE CellAt(sc_prev.grid, l, k)

\* C26: after clear_screen(Saved) the grid has no scrollback history, so
\* that scrolling the display to the top changes nothing, and the visible
\* cells and the cursor are as before.
C26_SavedDropsHistoryOnly ==
    (sc_last.op = "clear_screen" /\ sc_last.arg = "Saved") =>
        /\ sc_term.history = 0
        /\ scroll_display(sc_term, "Top") = sc_term
        /\ sc_term.grid = sc_prev.grid
        /\ sc_term.cursor = sc_prev.cursor

\* clear_screen(Saved) applied to a primary grid with a row of scrollback
\* and a written cell
C26_Witness ==
    /\ sc_last.op = "clear_screen"
    /\ sc_last.arg = "Saved"
    /\ sc_prev.history > 0
    /\ \E l \in DOMAIN sc_term.grid : \E k \in DOMAIN sc_term.grid[l] :
           CellAt(sc_term.grid, l, k).c = "a"

\* the last operation wrote a width-1 character with LINE_WRAP set, the
\* cursor being in the last column before
WroteInLastColumn ==
    /\ Wrote("a")
    /\ "LINE_WRAP" \in sc_prev.mode
    /\ sc_prev.cursor.col = sc_prev.num_cols - 1

\* the glyph input writes for a width-1 character
NarrowGlyph == [sc_prev.cursor.template EXCEPT !.c = "a"]

\* the grid before, with WRAPLINE on the cell under the cursor
WrapFlagged ==
    [sc_prev.grid EXCEPT ![sc_prev.cursor.line][sc_prev.cursor.col].flags =
                             @ \cup {"WRAPLINE"}]

\* the character that fills a line leaves the cursor in the last column
\* with a wrap pending
FillsLine ==
    (WroteInLastColumn /\ ~sc_prev.input_needs_wrap) =>
        /\ sc_term.cursor.line = sc_prev.cursor.line
        /\ sc_term.cursor.col = sc_prev.num_cols - 1
        /\ sc_term.input_needs_wrap

\* the wrap onto the next line, or the scroll at the region's last line
WrapsDown ==
    LET line == sc_prev.cursor.line
        region == sc_prev.scroll_region IN
    IF line + 1 = region.end
    THEN /\ sc_term.cursor.line = line
         /\ sc_term.grid =
                [GridScrollUp(WrapFlagged, region.start, region.end, 1,
                              sc_prev.cursor.template)
                     EXCEPT ![line][0] = NarrowGlyph]
    ELSE /\ line + 1 < sc_prev.num_lines
         /\ sc_term.cursor.line = line + 1
         /\ sc_term.grid = [WrapFlagged EXCEPT ![line + 1][0] = NarrowGlyph]

\* the cursor on the last line of the grid, below the scroll region
BelowRegionOnLastLine ==
    /\ sc_prev.cursor.line + 1 = sc_prev.num_lines
    /\ sc_prev.scroll_region.end < sc_prev.num_lines

\* C22: with LINE_WRAP set the character that fills a line
\* leaves the cursor in the last column with input_needs_wrap; the next
\* printable character sets WRAPLINE on that last cell, is written at column
\* 0 of the next line (the scroll region scrolls up by one instead when the
\* cursor was on the region's last line) and leaves the cursor at column 1
\* with input_needs_wrap false.
C22_WrapToNextLine ==
    /\ FillsLine
    /\ (WroteInLastColumn /\ sc_prev.input_needs_wrap) =>
           /\ WrapsDown
           /\ sc_term.cursor.col = 1
           /\ ~sc_term.input_needs_wrap

\* Everywhere else the wrap is as stated: on the last line of the
\* grid, when that line lies below the scroll region, the character is
\* written at column 0 of the same line and nothing scrolls.
WrapToNextLineOrStay ==
    /\ FillsLine
    /\ (WroteInLastColumn /\ sc_prev.input_needs_wrap) =>
           /\ IF BelowRegionOnLastLine
              THEN /\ sc_term.cursor.line = sc_prev.cursor.line
                   /\ sc_term.grid =
                          [WrapFlagged EXCEPT ![sc_prev.cursor.line][0] =
                                                  NarrowGlyph]
              ELSE WrapsDown
           /\ sc_term.cursor.col = 1
           /\ ~sc_term.input_needs_wrap

\* C21: leaving the alternate screen with unset_mode of
\* SwapScreenAndSetRestoreCursor leaves the visible primary grid
\* cell for cell as it was immediately before set_mode of that mode entered
\* the alternate screen, whatever was written, moved, scrolled, inserted,
\* deleted or cleared in between, a repeated set_mode included.
C21_PrimaryGridSurvivesAltScreen ==
    (sc_last.op = "unset_mode" /\ sc_last.arg = SwapScreen /\ sc_prev.alt) =>
        /\ ~sc_term.alt
        /\ sc_term.grid = sc_entered

\* the alternate screen left after something was written on it, the primary
\* grid holding a character
C21_Witness ==
    /\ sc_last.op = "unset_mode"
    /\ sc_last.arg = SwapScreen
    /\ sc_prev.alt
    /\ sc_prev.grid # sc_entered
    /\ CellAt(sc_term.grid, 0, 0).c = "a"
    /\ sc_steps = 3

(***************************************************************************)
(* Raw tty: properties.                                                    *)
(***************************************************************************)
\* into_raw_mode succeeded and no RawTty handle is left
AllRawTtyDropped ==
    /\ ty_pc = "raw"
    /\ \A h \in RawTtyHandles : ty_handles[h] # "live"

C37_ScrollRegionNonEmptyInGrid ==
    ~t_term.panicked =>
        /\ 0 <= t_term.scroll_region.start
        /\ t_term.scroll_region.start < t_term.scroll_region.end
        /\ t_term.scroll_region.end <= t_term.num_lines

\* the scroll region holds a line and lies inside the grid
RegionWellFormed ==
    /\ t_term.scroll_region.start < t_term.scroll_region.end
    /\ t_term.scroll_region.end <= t_term.num_lines

\* C35: in every mode, ORIGIN with a scroll region that does not start at
\* line 0 included, move_up(n) and move_up_and_cr(n) leave the cursor on a
\* line <= its previous line, move_down(n) and move_down_and_cr(n) on a
\* line >= its previous line, and goto_col(c) leaves the line unchanged.
C35_RelativeMotionKeepsDirection ==
    (~t_term.panicked /\ RegionWellFormed
        /\ t_term.cursor.line < t_term.num_lines) =>
        /\ \A n \in 1..MaxTermArg :
               /\ move_up(t_term, n).cursor.line <= t_term.cursor.line
               /\ move_up_and_cr(t_term, n).cursor.line <= t_term.cursor.line
               /\ move_down(t_term, n).cursor.line >= t_term.cursor.line
               /\ move_down_and_cr(t_term, n).cursor.line >= t_term.cursor.line
        /\ \A c \in TermArgs :
               goto_col(t_term, c).cursor.line = t_term.cursor.line

\* a row of the template
BlankRow(g, template) == [k \in DOMAIN g[0] |-> template]

\* the rows start..end-1 of after are those of before moved up by one, the
\* last of them blank, every other row as before
ScrolledUpByOne(before, after, start, end, template) ==
    \A l \in DOMAIN before :
        after[l] = IF l < start \/ l >= end THEN before[l]
                   ELSE IF l + 1 < end THEN before[l + 1]
                   ELSE BlankRow(before, template)

\* the rows start..end-1 of after are those of before moved down by one,
\* the first of them blank, every other row as before
ScrolledDownByOne(before, after, start, end, template) ==
    \A l \in DOMAIN before :
        after[l] = IF l < start \/ l >= end THEN before[l]
                   ELSE IF l > start THEN before[l - 1]
                   ELSE BlankRow(before, template)

\* With a scroll region that holds a line, linefeed scrolls the region up
\* by one line, the cursor line unchanged, exactly when the cursor is on the
\* last line of the region, and otherwise moves the cursor down one line
\* unless it is on the last line of the grid; reverse_index scrolls the
\* region down by one line exactly when the cursor is on its first line and
\* otherwise moves the cursor up one line, never above line 0.  Neither
\* changes the cursor column.
LinefeedAndReverseIndexCells ==
    LET line == sc_prev.cursor.line
        region == sc_prev.scroll_region
        template == sc_prev.cursor.template IN
    /\ sc_last.op = "linefeed" =>
           /\ sc_term.cursor.col = sc_prev.cursor.col
           /\ IF line + 1 = region.end
              THEN /\ sc_term.cursor.line = line
                   /\ ScrolledUpByOne(sc_prev.grid, sc_term.grid,
                                      region.start, region.end, template)
              ELSE /\ sc_term.grid = sc_prev.grid
                   /\ sc_term.cursor.line =
                          IF line + 1 < sc_prev.num_lines THEN line + 1 ELSE line
    /\ sc_last.op = "reverse_index" =>
           /\ sc_term.cursor.col = sc_prev.cursor.col
           /\ IF line = region.start
              THEN /\ sc_term.cursor.line = line
                   /\ ScrolledDownByOne(sc_prev.grid, sc_term.grid,
                                        region.start, region.end, template)
              ELSE /\ sc_term.grid = sc_prev.grid
                   /\ sc_term.cursor.line = IF line > 0 THEN line - 1 ELSE 0

\* C31: linefeed leaves the cursor line unchanged (and scrolls the region)
\* exactly when the cursor is on the last line of the scroll region, and
\* otherwise moves the cursor down one line unless it is on the last line of
\* the grid; reverse_index leaves it unchanged (and scrolls) exactly when the
\* cursor is on the first line of the region and otherwise moves it up one
\* line, never above line 0.  Neither changes the cursor column, and the
\* length of the scroll does not underflow.
C31_LinefeedAndReverseIndex ==
    LET line == t_term.cursor.line
        lf == linefeed(t_term)
        ri == reverse_index(t_term)
        onLast == RegionContains(t_term, line)
                      /\ line + 1 = t_term.scroll_region.end
        onFirst == RegionContains(t_term, line)
                       /\ line = t_term.scroll_region.start IN
    (~t_term.panicked /\ line < t_term.num_lines
        /\ t_term.cursor.col < t_term.num_cols) =>
        /\ lf.cursor.col = t_term.cursor.col
        /\ ri.cursor.col = t_term.cursor.col
        /\ ~lf.ovf /\ ~ri.ovf
        /\ lf.cursor.line = IF onLast THEN line
                            ELSE IF line + 1 < t_term.num_lines THEN line + 1
                            ELSE line
        /\ ri.cursor.line = IF onFirst THEN line
                            ELSE IF line > 0 THEN line - 1
                            ELSE 0

\* the last operation was insert_blank_lines or delete_lines
InLineShift == sc_last.op \in {"insert_blank_lines", "delete_lines"}

\* C32: insert_blank_lines(n) and delete_lines(n) change nothing (cells,
\* scrollback, cursor) when the cursor line is outside the scroll region;
\* when it is inside, lines above the cursor line and lines at or below the
\* end of the region keep their content, and the cursor does not move.
C32_LineShiftFrame ==
    InLineShift =>
        /\ sc_term.cursor = sc_prev.cursor
        /\ sc_term.alt_grid = sc_prev.alt_grid
        /\ IF RegionContains(sc_prev, sc_prev.cursor.line)
           THEN \A l \in DOMAIN sc_prev.grid :
                    (l < sc_prev.cursor.line
                        \/ l >= sc_prev.scroll_region.end) =>
                        sc_term.grid[l] = sc_prev.grid[l]
           ELSE /\ sc_term.grid = sc_prev.grid
                /\ sc_term.history = sc_prev.history
                /\ sc_term.display_offset = sc_prev.display_offset

\* an insert_blank_lines or delete_lines inside the region moved a written
\* line while a written line outside its reach stayed
C32_Witness ==
    /\ InLineShift
    /\ RegionContains(sc_prev, sc_prev.cursor.line)
    /\ sc_term.grid # sc_prev.grid
    /\ \E l \in DOMAIN sc_prev.grid :
           /\ l < sc_prev.cursor.line \/ l >= sc_prev.scroll_region.end
           /\ sc_prev.grid[l] # BlankRow(sc_prev.grid, DefaultCell)

\* a line shift outside the region
LineShiftOutsideRegion ==
    InLineShift /\ ~RegionContains(sc_prev, sc_prev.cursor.line)

\* the last operation was delete_chars or insert_blank
InCharShift == sc_last.op \in {"delete_chars", "insert_blank"}

\* C36: delete_chars(count) and insert_blank(count), for every count >= 1,
\* modify only cells of the cursor's line at columns >= the cursor column;
\* cells left of the cursor, all other lines and the cursor position are
\* unchanged.
C36_CharShiftFrame ==
    InCharShift =>
        /\ sc_term.cursor = sc_prev.cursor
        /\ \A l \in DOMAIN sc_prev.grid : \A k \in DOMAIN sc_prev.grid[l] :
               (l # sc_prev.cursor.line \/ k < sc_prev.cursor.col) =>
                   CellAt(sc_term.grid, l, k) = CellAt(sc_prev.grid, l, k)

\* the same frame for insert_blank alone
InsertBlankFrame ==
    sc_last.op = "insert_blank" =>
        /\ sc_term.cursor = sc_prev.cursor
        /\ \A l \in DOMAIN sc_prev.grid : \A k \in DOMAIN sc_prev.grid[l] :
               (l # sc_prev.cursor.line \/ k < sc_prev.cursor.col) =>
                   CellAt(sc_term.grid, l, k) = CellAt(sc_prev.grid, l, k)

\* the fields reset_state assigns are those of a new terminal, and the grid
\* in use is blank and without history
ResetStateResetsFields ==
    sc_last.op = "reset_state" =>
        /\ ~sc_term.alt
        /\ ~sc_term.input_needs_wrap
        /\ sc_term.grid = GridNew(sc_term.num_lines, sc_term.num_cols,
                                  DefaultCell)
        /\ sc_term.history = 0
        /\ sc_term.mode = DefaultMode
        /\ sc_term.cursor = CursorNew
        /\ sc_term.cursor_save = CursorNew
        /\ sc_term.cursor_save_alt = CursorNew

\* C40: after reset_state, issued on the primary or on the alternate
\* screen, the terminal is on the primary screen in the state of a new
\* terminal of the same size: the active grid is the primary grid, the one
\* with scrollback, every cell blank and no history, the mode is the default,
\* the cursor and both saved cursors are at (0,0) with the default template,
\* and the scroll region spans the full height.
C40_ResetStateIsNewTerminal ==
    sc_last.op = "reset_state" =>
        /\ ~sc_term.alt
        /\ sc_term.history_size = HistorySize
        /\ sc_term.grid = GridNew(sc_term.num_lines, sc_term.num_cols,
                                  DefaultCell)
        /\ sc_term.history = 0
        /\ sc_term.mode = DefaultMode
        /\ sc_term.cursor = CursorNew
        /\ sc_term.cursor_save = CursorNew
        /\ sc_term.cursor_save_alt = CursorNew
        /\ sc_term.scroll_region = [start |-> 0, end |-> sc_term.num_lines]

\* after a reset_state on the alternate screen the grid in use is the one
\* without scrollback and the primary grid, content and all, is the spare
ResetOnAltKeepsAltGrid ==
    (sc_last.op = "reset_state" /\ sc_prev.alt) =>
        /\ sc_term.history_size = 0
        /\ sc_term.alt_grid = sc_prev.alt_grid
        /\ sc_term.alt_history = sc_prev.alt_history

\* C38: while any RawTty handle, the one into_raw_mode returned or its
\* clone, is alive, the terminal stays in raw mode: the saved attributes are
\* re-applied only when the last handle is dropped, in whichever order the
\* handles are dropped.
C38_RawWhileAHandleLives ==
    (ty_pc = "raw" /\ \E h \in RawTtyHandles : ty_handles[h] = "live") =>
        ty_termios = raw_terminal_attr(ty_prev_ios)

\* the number of items the sink of downstream d was handed
Delivered(d) == Len(Received(d))

\* C34: in every reachable Fanout state without a downstream error each
\* downstream holds at most one pending, not yet delivered item, that item
\* is the most recently accepted one, and the numbers of items delivered to
\* any two downstreams differ by at most one.
C34_OnePendingItemInStep ==
    NoDownstreamError =>
        /\ \A d \in Down :
               /\ Len(Held(d)) <= Delivered(d) + 1
               /\ Pending(d) =>
                      /\ f_accepted # <<>>
                      /\ downstreams[d].state.item
                             = f_accepted[Len(f_accepted)]
                      /\ downstreams[d].state.item \notin Range(Received(d))
        /\ \A d, e \in Down :
               /\ Delivered(d) <= Delivered(e) + 1
               /\ Delivered(e) <= Delivered(d) + 1

\* one downstream holds the last accepted item pending while another has
\* been handed it, with an earlier item delivered to both
C34_Witness ==
    /\ NoDownstreamError
    /\ Len(f_accepted) >= 2
    /\ \E d, e \in Down :
           /\ Pending(d)
           /\ ~Pending(e)
           /\ Delivered(d) >= 1
           /\ Delivered(e) = Delivered(d) + 1

\* C39: in every reachable UI state the tab state is valid: selected is less
\* than the number of processes, also when the argument list yields no
\* process, and the scroll offset satisfies 0 <= scroll <= number of
\* processes after any sequence of mouse events in the tab column.
C39_TabStateValid ==
    /\ g_ui.selected < NumProcesses
    /\ 0 <= g_ui.scroll
    /\ g_ui.scroll <= NumProcesses

\* the tab state is valid when there is a process
TabStateValidWithProcesses ==
    NumProcesses > 0 =>
        /\ g_ui.selected < NumProcesses
        /\ 0 <= g_ui.scroll
        /\ g_ui.scroll <= NumProcesses

\* the tab column has been scrolled and the second tab selected
TabsScrolledAndSelected == g_ui.scroll > 0 /\ g_ui.selected > 0

(***************************************************************************)
(* Forwarding of actions: properties.                                      *)
(***************************************************************************)
\* the Fanout has handed an action back and Forward holds it
ForwardHolds == fw_buffered # 0

\* a child that reads its input empties its input sink again and again
ReadersKeepReading ==
    \A d \in Down : []<>(fw_reads[d] => fw_downstreams[d].sink.n = 0)

\* every chunk a child has written is eventually fed to its emulator
OutputEventuallyFed ==
    \A d \in Down : (fw_fed[d] < fw_written[d]) ~> (fw_fed[d] = fw_written[d])

\* C33: backpressure on child input never stalls output processing: while
\* some child's input sink is not ready to accept a pending action, so that
\* Fanout.start_send keeps returning NotReady, the output events of all
\* children are still consumed, fed to their emulators and redrawn; a child
\* that does not read its input cannot freeze the display of the others.
C33_OutputNotStalledByInput == ReadersKeepReading => OutputEventuallyFed

\* the same when every child reads its input
OutputFedWhenAllRead ==
    (ReadersKeepReading /\ [](\A d \in Down : fw_reads[d]))
        => OutputEventuallyFed

\* while Forward holds an action the Fanout hands back, no event is consumed
HeldActionStopsEvents ==
    [][(ForwardHolds /\ fw_buffered' # 0) =>
           (fw_fed' = fw_fed /\ fw_user' = fw_user)]_vars

\* an action is held for a child that does not read while another child's
\* output waits
StalledWithOutputWaiting ==
    /\ ForwardHolds
    /\ \E d \in Down : ~fw_reads[d] /\ ~IsReady(fw_downstreams[d])
    /\ \E d \in Down : fw_reads[d] /\ fw_fed[d] < fw_written[d]

====
